---- MODULE Spec2Model ----
(***************************************************************************)
(* StudyFlow page scripts: the form pipelines (support ticket, donation,   *)
(* email and phone sign-in) and the persisted preference stores (theme,    *)
(* share progress).                                                        *)
(*                                                                         *)
(* Every page runs single-threaded: one action of the model is one run of  *)
(* an event listener, of a promise continuation or of a timer callback.    *)
(* Field values are sequences of one-character strings, so that trim and   *)
(* the regular expressions are computed on the characters.  Element ids    *)
(* and messages are plain strings.                                         *)
(***************************************************************************)
EXTENDS Integers, Sequences, FiniteSets, TLC

VARIABLES
  page,        \* the page whose script is running
  emitted,     \* the toasts and notifications the last handler run showed, in order
  tValue,      \* ticket form: field -> current value
  tClass,      \* ticket form: field -> classList contains "error"
  tAria,       \* ticket form: field -> aria-invalid attribute present
  errText,     \* help page: id of an error element -> its textContent
  charCount,   \* help page: #charCount, [text, color]
  tDisabled,   \* ticket form: submit button .disabled
  tModal,      \* ticket modal: classList contains "active"
  tPending,    \* ticket form: submitTicket calls not yet settled (ticketData)
  tTimers,     \* ticket form: armed close-and-re-enable timers (line 452)
  dValue,      \* donation form: control -> value (donorName, donorEmail, customAmount)
  dChecked,    \* donation form: checkbox -> checked (anonymousDonor, featuredDonor)
  selectedAmount,     \* DonationManager.selectedAmount
  selectedFrequency,  \* DonationManager.selectedFrequency
  customHidden,  \* .custom-amount-section: classList contains "hidden"
  dDisabled,   \* donation form: submit button .disabled
  dPending,    \* donation form: processDonation calls not yet settled
  aValue,      \* sign-in page: input -> value (emailInput, passwordInput, phoneInput)
  aClass,      \* sign-in page: input -> classList contains "error"
  aAria,       \* sign-in page: input -> aria-invalid attribute present
  aErrText,    \* sign-in page: id of an error element -> its textContent
  authTab,     \* sign-in page: the form shown, "email" or "phone"
  eDisabled,   \* email form: submit button .disabled
  ePending,    \* email form: authenticateWithEmail calls not yet settled
  eTimers,     \* email form: armed redirect timers (line 729)
  pDisabled,   \* phone form: submit button .disabled
  pPending,    \* phone form: sendVerificationCode calls not yet settled
  pTimers,     \* phone form: armed re-enable timers (line 774)
  storage,     \* localStorage: key -> the string stored, or NoItem
  css,         \* documentElement.style: custom property -> value
  dataTheme,   \* documentElement: the data-theme attribute, or NoAttr
  modeActive,  \* the data-mode values of the .mode-btn buttons with class "active"
  pageError,   \* an exception left the page's initialisation uncaught
  authReady,   \* sign-in page: the AuthenticationManager was constructed
  shareCount,      \* SocialSharingManager.shareCount
  sharedPlatforms, \* SocialSharingManager.sharedPlatforms, in insertion order
  championHidden,  \* #championSection: classList contains "hidden"
  shareUi,     \* support page: progress bar, counter, message, marked platforms
  probe,       \* the value handed to a validator
  verdict,     \* the validators applied to the probe -> their results
  faqActive,   \* help page: the .faq-item elements with class "active"
  champValue,  \* champion form: control -> value (championName, championEmail)
  champPending,  \* champion form: simulated calls not yet settled
  toastBox,    \* #toastContainer: the toasts it holds, oldest first
  toastShown,  \* the number of ToastManager.show calls so far
  toastRemovals  \* toast -> the number of toast.remove() calls for it

ticketVars == <<tValue, tClass, tAria, errText, charCount, tDisabled, tModal,
                tPending, tTimers>>
donationVars == <<dValue, dChecked, selectedAmount, selectedFrequency,
                  customHidden, dDisabled, dPending>>
authVars == <<aValue, aClass, aAria, aErrText, authTab, eDisabled, ePending,
              eTimers, pDisabled, pPending, pTimers>>
storeVars == <<storage, css, dataTheme, modeActive, pageError, authReady>>
shareVars == <<shareCount, sharedPlatforms, championHidden, shareUi>>
probeVars == <<probe, verdict>>
widgetVars == <<faqActive, champValue, champPending, toastBox, toastShown,
                toastRemovals>>
vars == <<page, emitted, ticketVars, donationVars, authVars, storeVars,
          shareVars, probeVars, widgetVars>>

\* what the script of a page leaves alone: the state of the other pages
\* (the ticket and donation handlers leave the widgets of their page alone)
offHelp == <<donationVars, authVars, storeVars, shareVars, probeVars, widgetVars>>
offSupport == <<ticketVars, authVars, storeVars, shareVars, probeVars, widgetVars>>
offSignIn == <<ticketVars, donationVars, storeVars, shareVars, probeVars,
               widgetVars>>
offStore == <<ticketVars, donationVars, authVars, widgetVars>>

(***************************************************************************)
(* Bounds of the model.                                                    *)
(***************************************************************************)
\* No submit handler is started while this many external operations and
\* timers of its form are outstanding.
MaxPending == 2
\* No handler that shows a toast is started once this many toasts were shown
\* or are owed by pending calls.
MaxShows == 2
\* The step of the clock, in milliseconds.
TickMs == 500

(***************************************************************************)
(* Strings.                                                                *)
(***************************************************************************)
SetMin(S) == CHOOSE m \in S : \A n \in S : m <= n
SetMax(S) == CHOOSE m \in S : \A n \in S : m >= n

\* \s of the regular expressions and the white space String.trim removes
IsSpace(c) == c \in {" ", "\t", "\n"}

\* String.prototype.trim
Trim(s) ==
  LET keep == {i \in 1..Len(s) : ~IsSpace(s[i])}
  IN  IF keep = {} THEN <<>> ELSE SubSeq(s, SetMin(keep), SetMax(keep))

EmailPatternNoDot(s) ==
  \E i \in 2..(Len(s) - 1) :
    /\ s[i] = "@"
    /\ \A k \in 1..Len(s) : ~IsSpace(s[k]) /\ (s[k] = "@" => k = i)

\* /^[^\s@]+@[^\s@]+\.[^\s@]+$/.test(s)
EmailPatternTest(s) ==
  \E i \in 1..Len(s) : \E j \in 1..Len(s) :
    /\ s[i] = "@" /\ i > 1
    /\ s[j] = "." /\ j > i + 1 /\ j < Len(s)
    /\ \A k \in 1..Len(s) : ~IsSpace(s[k]) /\ (s[k] = "@" => k = i)

\* n copies of the character c
Rep(c, n) == [i \in 1..n |-> c]

(***************************************************************************)
(* Toasts.  ToastManager.show(message, type) appends one toast; `emitted`  *)
(* keeps the calls one handler run makes.                                  *)
(***************************************************************************)
Toast(type, text) == [type |-> type, text |-> text]

FixErrorsToast == Toast("error", <<"Please fix the errors in the form">>)
TicketFailedToast ==
  Toast("error", <<"Failed to submit ticket. Please try again or email us directly.">>)
\* `Ticket #${ticketNumber} created! We'll email you soon at ${ticketData.email}`
TicketCreatedToast(email) == Toast("success", <<"Ticket created", email>>)

(***************************************************************************)
(* Help page: the ticket form.                                             *)
(***************************************************************************)
TextFields == {"name", "email", "subject", "description"}
SelectFields == {"category", "priority"}
TicketFields == TextFields \cup SelectFields

\* the order of the validators in handleSubmit
ValidationOrder ==
  <<"name", "email", "category", "priority", "subject", "description">>

\* the id attribute of each field's element (constructor)
InputId(f) ==
  CASE f = "name" -> "ticketName"
    [] f = "email" -> "ticketEmail"
    [] f = "category" -> "ticketCategory"
    [] f = "priority" -> "ticketPriority"
    [] f = "subject" -> "ticketSubject"
    [] f = "description" -> "ticketDescription"

\* the id each validator hands to showError
ShowErrorId(f) ==
  CASE f = "name" -> "nameError"
    [] f = "email" -> "ticketEmailError"
    [] f = "category" -> "categoryError"
    [] f = "priority" -> "priorityError"
    [] f = "subject" -> "subjectError"
    [] f = "description" -> "descriptionError"

\* The error elements of the document: the targets the validators write to.
ErrorElementIds == {ShowErrorId(f) : f \in TicketFields}

NameMinLength == 2
SubjectMinLength == 5
DescriptionMinLength == 20
DescriptionMaxLength == 1000

Valid == [valid |-> TRUE, message |-> ""]
Invalid(msg) == [valid |-> FALSE, message |-> msg]

validateName(value) ==
  LET v == Trim(value)
  IN  IF v = <<>> THEN Invalid("Please enter your name")
      ELSE IF Len(v) < NameMinLength
        THEN Invalid("Name must be at least 2 characters")
      ELSE Valid

validateEmail(value) ==
  LET v == Trim(value)
  IN  IF v = <<>> THEN Invalid("Please enter your email")
      ELSE IF ~EmailPatternTest(v)
        THEN Invalid("Please enter a valid email address")
      ELSE Valid

validateCategory(value) ==
  IF value = <<>> THEN Invalid("Please select a category") ELSE Valid

validatePriority(value) ==
  IF value = <<>> THEN Invalid("Please select a priority level") ELSE Valid

validateSubject(value) ==
  LET v == Trim(value)
  IN  IF v = <<>> THEN Invalid("Please enter a subject")
      ELSE IF Len(v) < SubjectMinLength
        THEN Invalid("Subject must be at least 5 characters")
      ELSE Valid

ValidateDescriptionNoMax(value) ==
  LET v == Trim(value)
  IN  IF v = <<>> THEN Invalid("Please describe your issue")
      ELSE IF Len(v) < DescriptionMinLength
        THEN Invalid("Please provide more details (at least 20 characters)")
      ELSE Valid

validateDescription(value) ==
  LET v == Trim(value)
  IN  IF v = <<>> THEN Invalid("Please describe your issue")
      ELSE IF Len(v) < DescriptionMinLength
        THEN Invalid("Please provide more details (at least 20 characters)")
      ELSE IF Len(v) > DescriptionMaxLength
        THEN Invalid("Description is too long (max 1000 characters)")
      ELSE Valid

\* the validator of field f on a value
Validate(f, value) ==
  CASE f = "name" -> validateName(value)
    [] f = "email" -> validateEmail(value)
    [] f = "category" -> validateCategory(value)
    [] f = "priority" -> validatePriority(value)
    [] f = "subject" -> validateSubject(value)
    [] f = "description" -> validateDescription(value)

\* The part of the document the validators change.
TicketDom == [cls |-> tClass, aria |-> tAria, text |-> errText]

\* showError(input, errorId, message)
showError(d, f, errorId, message) ==
  [cls |-> [d.cls EXCEPT ![f] = TRUE],
   aria |-> [d.aria EXCEPT ![f] = TRUE],
   text |-> IF errorId \in DOMAIN d.text
              THEN [d.text EXCEPT ![errorId] = message]
              ELSE d.text]

\* clearError(input): the error element is looked up as input.id + "Error"
clearError(d, f) ==
  LET errorId == InputId(f) \o "Error"
  IN  [cls |-> [d.cls EXCEPT ![f] = FALSE],
       aria |-> [d.aria EXCEPT ![f] = FALSE],
       text |-> IF errorId \in DOMAIN d.text
                  THEN [d.text EXCEPT ![errorId] = ""]
                  ELSE d.text]

\* One validator run on the document: shows the error when the value fails.
RunValidator(d, f, value) ==
  LET r == Validate(f, value)
  IN  IF r.valid THEN d ELSE showError(d, f, ShowErrorId(f), r.message)

\* The validators of handleSubmit's array literal, all run, in order.
RECURSIVE RunValidators(_, _, _)
RunValidators(d, order, values) ==
  IF order = <<>> THEN d
  ELSE RunValidators(RunValidator(d, Head(order), values[Head(order)]),
                     Tail(order), values)

\* updateCharCount
CharCountWarnAbove == 900
CharCountErrorFrom == 1000
updateCharCount(description) ==
  LET count == Len(description)
  IN  [text |-> count,
       color |-> IF count > CharCountWarnAbove THEN "var(--warning-color)"
                 ELSE IF count >= CharCountErrorFrom THEN "var(--error-color)"
                 ELSE ""]

\* TicketManager.setLoadingState(button, loading): the value of button.disabled
TicketNeverDisabled(loading) == FALSE

TicketSetLoadingState(loading) == loading

\* The values a user gives the ticket fields.
TicketValues(f) ==
  CASE f = "name" -> {<<>>, <<"A">>, <<"A", "l">>}
    [] f = "email" -> {<<>>, <<"b", "a", "d">>, <<"a", "@", "b", ".", "c", "o">>}
    [] f = "category" -> {<<>>, <<"t", "e", "c", "h">>}
    [] f = "priority" -> {<<>>, <<"h", "i", "g", "h">>}
    [] f = "subject" -> {<<>>, <<"L", "o", "g", "i", "n">>}
    [] f = "description" -> {<<>>, Rep("d", DescriptionMinLength)}

\* form.reset(): every control back to its default value
TicketDefaults == [f \in TicketFields |-> <<>>]

TicketInit ==
  /\ tValue = TicketDefaults
  /\ tClass = [f \in TicketFields |-> FALSE]
  /\ tAria = [f \in TicketFields |-> FALSE]
  /\ errText = [id \in ErrorElementIds |-> ""]
  /\ charCount = [text |-> 0, color |-> ""]
  /\ tDisabled = FALSE
  /\ tModal = FALSE
  /\ tPending = <<>>
  /\ tTimers = 0

\* open()
TicketOpen ==
  /\ page = "help" /\ ~tModal
  /\ tModal' = TRUE
  /\ emitted' = <<>>
  /\ UNCHANGED <<offHelp, page, tValue, tClass, tAria, errText, charCount, tDisabled,
                 tPending, tTimers>>

TicketCloseCancels ==
  /\ page = "help" /\ tModal
  /\ tModal' = FALSE
  /\ tPending' = <<>>
  /\ emitted' = <<>>
  /\ UNCHANGED <<offHelp, page, tValue, tClass, tAria, errText, charCount, tDisabled,
                 tTimers>>

\* close(): the close button, a click on the backdrop, Escape
TicketClose ==
  /\ page = "help" /\ tModal
  /\ tModal' = FALSE
  /\ emitted' = <<>>
  /\ UNCHANGED <<offHelp, page, tValue, tClass, tAria, errText, charCount, tDisabled,
                 tPending, tTimers>>

\* The user edits a text field: the "input" listeners run in the order init
\* registered them (updateCharCount for the description, then clearError).
TicketInput(f, v) ==
  /\ page = "help" /\ tModal
  /\ f \in TextFields /\ v \in TicketValues(f) /\ v # tValue[f]
  /\ tValue' = [tValue EXCEPT ![f] = v]
  /\ charCount' = IF f = "description" THEN updateCharCount(v) ELSE charCount
  /\ LET d == clearError(TicketDom, f)
     IN  tClass' = d.cls /\ tAria' = d.aria /\ errText' = d.text
  /\ emitted' = <<>>
  /\ UNCHANGED <<offHelp, page, tDisabled, tModal, tPending, tTimers>>

\* A text field loses focus: the "blur" listener runs its validator.
TicketBlur(f) ==
  /\ page = "help" /\ tModal
  /\ f \in TextFields
  /\ LET d == RunValidator(TicketDom, f, tValue[f])
     IN  tClass' = d.cls /\ tAria' = d.aria /\ errText' = d.text
  /\ emitted' = <<>>
  /\ UNCHANGED <<offHelp, page, tValue, charCount, tDisabled, tModal, tPending, tTimers>>

\* The user picks an option of a select: the "change" listeners run in the
\* order init registered them, the validator (line 92) and then clearError
\* (line 114).
TicketChange(f, v) ==
  /\ page = "help" /\ tModal
  /\ f \in SelectFields /\ v \in TicketValues(f) /\ v # tValue[f]
  /\ tValue' = [tValue EXCEPT ![f] = v]
  /\ LET d == clearError(RunValidator(TicketDom, f, v), f)
     IN  tClass' = d.cls /\ tAria' = d.aria /\ errText' = d.text
  /\ emitted' = <<>>
  /\ UNCHANGED <<offHelp, page, charCount, tDisabled, tModal, tPending, tTimers>>

\* The data handleSubmit hands to submitTicket.
TicketData(values) ==
  [name |-> Trim(values["name"]), email |-> Trim(values["email"]),
   category |-> values["category"], priority |-> values["priority"],
   subject |-> Trim(values["subject"]),
   description |-> Trim(values["description"])]

SomeResultTrue(values) == \E f \in TicketFields : Validate(f, values[f]).valid

\* isValid of handleSubmit: [six results].every((result) => result === true)
AllResultsTrue(values) == \A f \in TicketFields : Validate(f, values[f]).valid

\* handleSubmit up to the await.  A submit event reaches the form only while
\* its submit button is enabled.
TicketHandleSubmit ==
  /\ page = "help" /\ tModal
  /\ ~tDisabled
  /\ Len(tPending) + tTimers < MaxPending
  /\ LET d == RunValidators(TicketDom, ValidationOrder, tValue)
         isValid == AllResultsTrue(tValue)
     IN  /\ tClass' = d.cls /\ tAria' = d.aria /\ errText' = d.text
         /\ IF ~isValid
              THEN /\ emitted' = <<FixErrorsToast>>
                   /\ UNCHANGED <<tDisabled, tPending>>
              ELSE /\ emitted' = <<>>
                   /\ tDisabled' = TicketSetLoadingState(TRUE)
                   /\ tPending' = Append(tPending, TicketData(tValue))
  /\ UNCHANGED <<offHelp, page, tValue, charCount, tModal, tTimers>>

\* submitTicket resolves: handleSubmit from the await to the end of the try
TicketResolved ==
  /\ page = "help"
  /\ tPending # <<>>
  /\ emitted' = <<TicketCreatedToast(Head(tPending).email)>>
  /\ tValue' = TicketDefaults
  /\ charCount' = updateCharCount(TicketDefaults["description"])
  /\ tTimers' = tTimers + 1
  /\ tPending' = Tail(tPending)
  /\ UNCHANGED <<offHelp, page, tClass, tAria, errText, tDisabled, tModal>>

\* submitTicket rejects: the catch block of handleSubmit
TicketRejected ==
  /\ page = "help"
  /\ tPending # <<>>
  /\ emitted' = <<TicketFailedToast>>
  /\ tDisabled' = TicketSetLoadingState(FALSE)
  /\ tPending' = Tail(tPending)
  /\ UNCHANGED <<offHelp, page, tValue, tClass, tAria, errText, charCount, tModal, tTimers>>

\* The timer of the success path fires: close() and setLoadingState(false)
TicketTimer ==
  /\ page = "help"
  /\ tTimers > 0
  /\ tTimers' = tTimers - 1
  /\ tModal' = FALSE
  /\ tDisabled' = TicketSetLoadingState(FALSE)
  /\ emitted' = <<>>
  /\ UNCHANGED <<offHelp, page, tValue, tClass, tAria, errText, charCount, tPending>>

TicketNext ==
  \/ TicketOpen
  \/ TicketClose
  \/ \E f \in TextFields : \E v \in TicketValues(f) : TicketInput(f, v)
  \/ \E f \in TextFields : TicketBlur(f)
  \/ \E f \in SelectFields : \E v \in TicketValues(f) : TicketChange(f, v)
  \/ TicketHandleSubmit
  \/ TicketResolved
  \/ TicketRejected
  \/ TicketTimer

(***************************************************************************)
(* JavaScript values that are a number, a string or null.                  *)
(***************************************************************************)
Null == [kind |-> "null", n |-> 0, s |-> <<>>]
Undefined == [kind |-> "undefined", n |-> 0, s |-> <<>>]
Num(n) == [kind |-> "number", n |-> n, s |-> <<>>]
Str(s) == [kind |-> "string", n |-> 0, s |-> s]

Digits == <<"0", "1", "2", "3", "4", "5", "6", "7", "8", "9">>
IsDigit(c) == \E i \in 1..Len(Digits) : Digits[i] = c
DigitValue(c) == (CHOOSE i \in 1..Len(Digits) : Digits[i] = c) - 1

\* parseInt / Number of a string of decimal digits
RECURSIVE ParseInt(_)
ParseInt(s) ==
  IF s = <<>> THEN 0
  ELSE 10 * ParseInt(SubSeq(s, 1, Len(s) - 1)) + DigitValue(s[Len(s)])

\* String(n) of a natural number
RECURSIVE NumberText(_)
NumberText(n) ==
  IF n < 10 THEN <<Digits[n + 1]>>
  ELSE NumberText(n \div 10) \o <<Digits[(n % 10) + 1]>>

\* a || b
OrElse(a, b) ==
  IF a.kind = "string" /\ a.s # <<>> THEN a
  ELSE IF a.kind = "number" /\ a.n # 0 THEN a
  ELSE IF a.kind = "array" THEN a
  ELSE b

\* !x
Falsy(x) ==
  \/ x.kind \in {"null", "undefined"}
  \/ x.kind = "number" /\ x.n = 0
  \/ x.kind = "string" /\ x.s = <<>>

\* x <= 0, the operand converted to a number
LeqZero(x) ==
  CASE x.kind = "null" -> TRUE
    [] x.kind = "undefined" -> FALSE
    [] x.kind = "number" -> x.n <= 0
    [] x.kind = "string" -> ParseInt(x.s) <= 0

\* `${x}`
TemplateText(x) ==
  CASE x.kind = "null" -> <<"n", "u", "l", "l">>
    [] x.kind = "undefined" -> <<"u", "n", "d", "e", "f", "i", "n", "e", "d">>
    [] x.kind = "number" -> NumberText(x.n)
    [] x.kind = "string" -> x.s

(***************************************************************************)
(* Support page: the donation form.                                        *)
(***************************************************************************)
DonationControls == {"donorName", "donorEmail", "customAmount"}
DonationBoxes == {"anonymousDonor", "featuredDonor"}

RequiredFieldsToast == Toast("error", <<"Please fill in all required fields">>)
SelectAmountToast ==
  Toast("error", <<"Please select or enter a donation amount">>)
PaymentFailedToast == Toast("error", <<"Payment failed. Please try again.">>)
\* `Thank you for your ${this.selectedFrequency} donation of $${finalAmount}! ...`
DonationThanksToast(frequency, amount) ==
  Toast("success", <<"Thank you for your donation", frequency, TemplateText(amount)>>)

DefaultAmount == 25

\* data-frequency of the .frequency-btn buttons
Frequencies == {"one-time", "monthly"}
\* data-amount of the .amount-btn buttons
AmountButtons == {<<"1", "0">>, <<"2", "5">>, <<"c", "u", "s", "t", "o", "m">>}

\* The values a user gives the donation controls.
DonationValues(c) ==
  CASE c = "donorName" -> {<<>>, <<" ">>, <<"J">>}
    [] c = "donorEmail" -> {<<>>, <<"x">>, <<"j", "@", "x", ".", "c", "o">>}
    [] c = "customAmount" -> {<<>>, <<"0">>, <<"5", "0">>}

\* donationForm.reset(): every control back to its default
DonationDefaults == [c \in DonationControls |-> <<>>]
DonationBoxDefaults == [b \in DonationBoxes |-> FALSE]

DonationInit ==
  /\ dValue = DonationDefaults
  /\ dChecked = DonationBoxDefaults
  /\ selectedAmount = Num(DefaultAmount)
  /\ selectedFrequency = "monthly"
  /\ customHidden = TRUE
  /\ dDisabled = FALSE
  /\ dPending = <<>>

\* The user edits a control of the form; the custom amount can be edited
\* while its section is shown.  No listener runs.
DonationInput(c, v) ==
  /\ page = "support"
  /\ c \in DonationControls /\ v \in DonationValues(c) /\ v # dValue[c]
  /\ c = "customAmount" => ~customHidden
  /\ dValue' = [dValue EXCEPT ![c] = v]
  /\ emitted' = <<>>
  /\ UNCHANGED <<offSupport, page, dChecked, selectedAmount, selectedFrequency,
                 customHidden, dDisabled, dPending>>

DonationBoxToggleOnly(b) ==
  /\ page = "support"
  /\ b \in DonationBoxes
  /\ dChecked' = [dChecked EXCEPT ![b] = ~dChecked[b]]
  /\ emitted' = <<>>
  /\ UNCHANGED <<offSupport, page, dValue, selectedAmount, selectedFrequency,
                 customHidden, dDisabled, dPending>>

\* The user clicks a checkbox; its "change" listener unchecks the other one.
DonationBoxChange(b) ==
  /\ page = "support"
  /\ b \in DonationBoxes
  /\ LET now == [dChecked EXCEPT ![b] = ~dChecked[b]]
     IN  dChecked' = IF now[b]
                       THEN [x \in DonationBoxes |-> IF x = b THEN TRUE ELSE FALSE]
                       ELSE now
  /\ emitted' = <<>>
  /\ UNCHANGED <<offSupport, page, dValue, selectedAmount, selectedFrequency,
                 customHidden, dDisabled, dPending>>

\* selectFrequency(btn)
selectFrequency(frequency) ==
  /\ page = "support"
  /\ frequency \in Frequencies
  /\ selectedFrequency' = frequency
  /\ emitted' = <<>>
  /\ UNCHANGED <<offSupport, page, dValue, dChecked, selectedAmount,
                 customHidden, dDisabled, dPending>>

\* selectAmount(btn)
selectAmount(amount) ==
  /\ page = "support"
  /\ amount \in AmountButtons
  /\ IF amount = <<"c", "u", "s", "t", "o", "m">>
       THEN customHidden' = FALSE /\ selectedAmount' = Null
       ELSE customHidden' = TRUE /\ selectedAmount' = Num(ParseInt(amount))
  /\ emitted' = <<>>
  /\ UNCHANGED <<offSupport, page, dValue, dChecked, selectedFrequency,
                 dDisabled, dPending>>

DonationStaysDisabled(loading) == TRUE

\* DonationManager.setLoadingState(button, loading): the value of button.disabled
DonationSetLoadingState(loading) == loading

\* const finalAmount = customAmount || this.selectedAmount
FinalAmount(customAmount, selected) == OrElse(Str(customAmount), selected)

\* the validation of handleSubmit: !donorName || !donorEmail
DonationFieldsMissing(donorName, donorEmail) ==
  Falsy(Str(donorName)) \/ Falsy(Str(donorEmail))

\* handleSubmit up to the await.  A submit event reaches the form only while
\* its submit button is enabled.  A pending call keeps the data it was given
\* and the finalAmount its continuation closes over.
DonationHandleSubmit ==
  /\ page = "support"
  /\ ~dDisabled
  /\ Len(dPending) < MaxPending
  /\ LET finalAmount == FinalAmount(dValue["customAmount"], selectedAmount)
     IN  IF DonationFieldsMissing(dValue["donorName"], dValue["donorEmail"])
           THEN /\ emitted' = <<RequiredFieldsToast>>
                /\ UNCHANGED <<dDisabled, dPending>>
         ELSE IF Falsy(finalAmount) \/ LeqZero(finalAmount)
           THEN /\ emitted' = <<SelectAmountToast>>
                /\ UNCHANGED <<dDisabled, dPending>>
         ELSE /\ emitted' = <<>>
              /\ dDisabled' = DonationSetLoadingState(TRUE)
              /\ dPending' = Append(dPending,
                   [name |-> dValue["donorName"], email |-> dValue["donorEmail"],
                    amount |-> finalAmount, frequency |-> selectedFrequency,
                    anonymous |-> dChecked["anonymousDonor"],
                    featured |-> dChecked["featuredDonor"]])
  /\ UNCHANGED <<offSupport, page, dValue, dChecked, selectedAmount,
                 selectedFrequency, customHidden>>

\* processDonation resolves: handleSubmit from the await to the end of the try
DonationResolved ==
  /\ page = "support"
  /\ dPending # <<>>
  /\ emitted' = <<DonationThanksToast(selectedFrequency, Head(dPending).amount)>>
  /\ dValue' = DonationDefaults
  /\ dChecked' = DonationBoxDefaults
  /\ dDisabled' = DonationSetLoadingState(FALSE)
  /\ dPending' = Tail(dPending)
  /\ UNCHANGED <<offSupport, page, selectedAmount, selectedFrequency, customHidden>>

\* processDonation rejects: the catch block of handleSubmit
DonationRejected ==
  /\ page = "support"
  /\ dPending # <<>>
  /\ emitted' = <<PaymentFailedToast>>
  /\ dDisabled' = DonationSetLoadingState(FALSE)
  /\ dPending' = Tail(dPending)
  /\ UNCHANGED <<offSupport, page, dValue, dChecked, selectedAmount,
                 selectedFrequency, customHidden>>

DonationNext ==
  \/ \E c \in DonationControls : \E v \in DonationValues(c) : DonationInput(c, v)
  \/ \E b \in DonationBoxes : DonationBoxChange(b)
  \/ \E fr \in Frequencies : selectFrequency(fr)
  \/ \E a \in AmountButtons : selectAmount(a)
  \/ DonationHandleSubmit
  \/ DonationResolved
  \/ DonationRejected

(***************************************************************************)
(* Sign-in page: FormValidator and the email and phone forms.              *)
(***************************************************************************)
AuthInputs == {"emailInput", "passwordInput", "phoneInput"}
\* The error elements of the sign-in document, one per input.
AuthErrorIds == {i \o "Error" : i \in AuthInputs}

PasswordMinLength == 8
PhoneMinLength == 10

PhonePatternAny(s) == s # <<>>

\* /^[\d\s\-\(\)]+$/.test(s)
PhonePatternTest(s) ==
  /\ s # <<>>
  /\ \A k \in 1..Len(s) : IsDigit(s[k]) \/ IsSpace(s[k]) \/ s[k] \in {"-", "(", ")"}

\* s.replace(/\D/g, "")
DigitsOnly(s) == SelectSeq(s, IsDigit)

\* String.prototype.slice(from, to) with 0 <= from
Slice(s, from, to) ==
  SubSeq(s, from + 1, IF to < Len(s) THEN to ELSE Len(s))

\* FormValidator.validateEmail
FormValidateEmail(email) ==
  IF email = <<>> \/ Trim(email) = <<>> THEN Invalid("Email is required")
  ELSE IF ~EmailPatternTest(email)
    THEN Invalid("Please enter a valid email address")
  ELSE Valid

FormValidatePasswordOver(password) ==
  IF password = <<>> \/ Trim(password) = <<>> THEN Invalid("Password is required")
  ELSE IF Len(password) <= PasswordMinLength
    THEN Invalid("Password must be at least 8 characters long")
  ELSE Valid

\* FormValidator.validatePassword
FormValidatePassword(password) ==
  IF password = <<>> \/ Trim(password) = <<>> THEN Invalid("Password is required")
  ELSE IF Len(password) < PasswordMinLength
    THEN Invalid("Password must be at least 8 characters long")
  ELSE Valid

\* FormValidator.validatePhone
FormValidatePhone(phone) ==
  IF phone = <<>> \/ Trim(phone) = <<>> THEN Invalid("Phone number is required")
  ELSE IF Len(DigitsOnly(phone)) < PhoneMinLength
    THEN Invalid("Please enter a valid phone number")
  ELSE IF ~PhonePatternTest(phone)
    THEN Invalid("Please enter a valid phone number")
  ELSE Valid

\* the "input" listener of attachPhoneFormatting: (XXX) XXX-XXXX
FormatPhone(typed) ==
  LET value == DigitsOnly(typed)
  IN  IF Len(value) = 0 THEN value
      ELSE IF Len(value) <= 3 THEN <<"(">> \o value
      ELSE IF Len(value) <= 6
        THEN <<"(">> \o Slice(value, 0, 3) \o <<")", " ">> \o Slice(value, 3, Len(value))
      ELSE <<"(">> \o Slice(value, 0, 3) \o <<")", " ">> \o Slice(value, 3, 6)
             \o <<"-">> \o Slice(value, 6, 10)

AuthValidate(i, value) ==
  CASE i = "emailInput" -> FormValidateEmail(value)
    [] i = "passwordInput" -> FormValidatePassword(value)
    [] i = "phoneInput" -> FormValidatePhone(value)

AuthDom == [cls |-> aClass, aria |-> aAria, text |-> aErrText]

\* FormValidator.showError(input, message)
FormShowError(d, i, message) ==
  LET errorId == i \o "Error"
  IN  [cls |-> [d.cls EXCEPT ![i] = TRUE],
       aria |-> [d.aria EXCEPT ![i] = TRUE],
       text |-> IF errorId \in DOMAIN d.text
                  THEN [d.text EXCEPT ![errorId] = message]
                  ELSE d.text]

\* FormValidator.clearError(input)
FormClearError(d, i) ==
  LET errorId == i \o "Error"
  IN  [cls |-> [d.cls EXCEPT ![i] = FALSE],
       aria |-> [d.aria EXCEPT ![i] = FALSE],
       text |-> IF errorId \in DOMAIN d.text
                  THEN [d.text EXCEPT ![errorId] = ""]
                  ELSE d.text]

\* validateEmailInput / validatePasswordInput / validatePhoneInput
ValidateInput(d, i, value) ==
  LET r == AuthValidate(i, value)
  IN  IF r.valid THEN d ELSE FormShowError(d, i, r.message)

SignedInToast == Toast("success", <<"Successfully signed in!">>)
CodeSentToast == Toast("success", <<"Verification code sent!">>)
\* error.message || "Sign in failed. Please try again."
SignInFailedToast(message) ==
  Toast("error", <<IF message # "" THEN message
                   ELSE "Sign in failed. Please try again.">>)
\* error.message || "Failed to send code. Please try again."
SendFailedToast(message) ==
  Toast("error", <<IF message # "" THEN message
                   ELSE "Failed to send code. Please try again.">>)

\* the message of the Error an external operation rejects with
RejectMessages == {"", "Invalid credentials"}

\* the value of the #countryCode select
CountryCode == <<"+", "1">>

\* The text a user types into the inputs of the sign-in page.
AuthValues(i) ==
  CASE i = "emailInput" -> {<<>>, <<"b", "a", "d">>, <<"a", "@", "b", ".", "c", "o">>}
    [] i = "passwordInput" -> {<<>>, <<"p", "w">>, Rep("p", PasswordMinLength)}
    [] i = "phoneInput" -> {<<>>, <<"5", "5", "5">>,
                            <<"5", "5", "5", "1", "2", "3", "4", "5", "6", "7">>}

\* the form an input belongs to
FormOf(i) == IF i = "phoneInput" THEN "phone" ELSE "email"

AuthInit ==
  /\ aValue = [i \in AuthInputs |-> <<>>]
  /\ aClass = [i \in AuthInputs |-> FALSE]
  /\ aAria = [i \in AuthInputs |-> FALSE]
  /\ aErrText = [id \in AuthErrorIds |-> ""]
  /\ authTab = "email"
  /\ eDisabled = FALSE /\ ePending = <<>> /\ eTimers = 0
  /\ pDisabled = FALSE /\ pPending = <<>> /\ pTimers = 0

\* switchTab(tab)
switchTab(tab) ==
  /\ page = "signin"
  /\ tab \in {"email", "phone"} /\ tab # authTab
  /\ authTab' = tab
  /\ emitted' = <<>>
  /\ UNCHANGED <<offSignIn, page, aValue, aClass, aAria, aErrText, eDisabled,
                 ePending, eTimers, pDisabled, pPending, pTimers>>

\* The user edits an input of the form shown: the "input" listeners run,
\* clearError and, for the phone input, the formatter.
AuthInput(i, typed) ==
  /\ page = "signin"
  /\ i \in AuthInputs /\ FormOf(i) = authTab
  /\ typed \in AuthValues(i)
  /\ LET v == IF i = "phoneInput" THEN FormatPhone(typed) ELSE typed
         d == FormClearError(AuthDom, i)
     IN  /\ v # aValue[i]
         /\ aValue' = [aValue EXCEPT ![i] = v]
         /\ aClass' = d.cls /\ aAria' = d.aria /\ aErrText' = d.text
  /\ emitted' = <<>>
  /\ UNCHANGED <<offSignIn, page, authTab, eDisabled, ePending, eTimers,
                 pDisabled, pPending, pTimers>>

\* An input of the form shown loses focus: its "blur" listener validates it.
AuthBlur(i) ==
  /\ page = "signin"
  /\ i \in AuthInputs /\ FormOf(i) = authTab
  /\ LET d == ValidateInput(AuthDom, i, aValue[i])
     IN  aClass' = d.cls /\ aAria' = d.aria /\ aErrText' = d.text
  /\ emitted' = <<>>
  /\ UNCHANGED <<offSignIn, page, aValue, authTab, eDisabled, ePending, eTimers,
                 pDisabled, pPending, pTimers>>

\* AuthenticationManager.setLoadingState(button, loading): the value of
\* button.disabled
AuthStaysDisabled(loading) == TRUE

AuthSetLoadingState(loading) == loading

\* handleEmailSubmit up to the await
handleEmailSubmit ==
  /\ page = "signin" /\ authTab = "email"
  /\ ~eDisabled
  /\ Len(ePending) + eTimers < MaxPending
  /\ LET d == ValidateInput(ValidateInput(AuthDom, "emailInput", aValue["emailInput"]),
                            "passwordInput", aValue["passwordInput"])
         emailValid == AuthValidate("emailInput", aValue["emailInput"]).valid
         passwordValid == AuthValidate("passwordInput", aValue["passwordInput"]).valid
     IN  /\ aClass' = d.cls /\ aAria' = d.aria /\ aErrText' = d.text
         /\ IF ~emailValid \/ ~passwordValid
              THEN UNCHANGED <<eDisabled, ePending>>
              ELSE /\ eDisabled' = AuthSetLoadingState(TRUE)
                   /\ ePending' = Append(ePending,
                        [email |-> aValue["emailInput"],
                         password |-> aValue["passwordInput"]])
  /\ emitted' = <<>>
  /\ UNCHANGED <<offSignIn, page, aValue, authTab, eTimers, pDisabled, pPending,
                 pTimers>>

\* authenticateWithEmail resolves: the rest of the try block arms the redirect
EmailResolved ==
  /\ page = "signin"
  /\ ePending # <<>>
  /\ emitted' = <<SignedInToast>>
  /\ eTimers' = eTimers + 1
  /\ ePending' = Tail(ePending)
  /\ UNCHANGED <<offSignIn, page, aValue, aClass, aAria, aErrText, authTab,
                 eDisabled, pDisabled, pPending, pTimers>>

\* authenticateWithEmail rejects: the catch block
EmailRejected(message) ==
  /\ page = "signin"
  /\ ePending # <<>>
  /\ message \in RejectMessages
  /\ emitted' = <<SignInFailedToast(message)>>
  /\ eDisabled' = AuthSetLoadingState(FALSE)
  /\ ePending' = Tail(ePending)
  /\ UNCHANGED <<offSignIn, page, aValue, aClass, aAria, aErrText, authTab,
                 eTimers, pDisabled, pPending, pTimers>>

\* The redirect timer fires: window.location.href = "dashboard.html".  The
\* sign-in document and the scripts running in it are gone.
EmailRedirect ==
  /\ page = "signin"
  /\ eTimers > 0
  /\ page' = "dashboard"
  /\ emitted' = <<>>
  /\ UNCHANGED <<offSignIn, authVars>>

\* handlePhoneSubmit up to the await
handlePhoneSubmit ==
  /\ page = "signin" /\ authTab = "phone"
  /\ ~pDisabled
  /\ Len(pPending) + pTimers < MaxPending
  /\ LET d == ValidateInput(AuthDom, "phoneInput", aValue["phoneInput"])
         phoneValid == AuthValidate("phoneInput", aValue["phoneInput"]).valid
     IN  /\ aClass' = d.cls /\ aAria' = d.aria /\ aErrText' = d.text
         /\ IF ~phoneValid
              THEN UNCHANGED <<pDisabled, pPending>>
              ELSE /\ pDisabled' = AuthSetLoadingState(TRUE)
                   /\ pPending' = Append(pPending, CountryCode \o aValue["phoneInput"])
  /\ emitted' = <<>>
  /\ UNCHANGED <<offSignIn, page, aValue, authTab, eDisabled, ePending, eTimers,
                 pTimers>>

\* sendVerificationCode resolves: the rest of the try block arms the timer
PhoneResolved ==
  /\ page = "signin"
  /\ pPending # <<>>
  /\ emitted' = <<CodeSentToast>>
  /\ pTimers' = pTimers + 1
  /\ pPending' = Tail(pPending)
  /\ UNCHANGED <<offSignIn, page, aValue, aClass, aAria, aErrText, authTab,
                 eDisabled, ePending, eTimers, pDisabled>>

\* sendVerificationCode rejects: the catch block
PhoneRejected(message) ==
  /\ page = "signin"
  /\ pPending # <<>>
  /\ message \in RejectMessages
  /\ emitted' = <<SendFailedToast(message)>>
  /\ pDisabled' = AuthSetLoadingState(FALSE)
  /\ pPending' = Tail(pPending)
  /\ UNCHANGED <<offSignIn, page, aValue, aClass, aAria, aErrText, authTab,
                 eDisabled, ePending, eTimers, pTimers>>

\* The timer of the success path fires: setLoadingState(submitBtn, false)
PhoneTimer ==
  /\ page = "signin"
  /\ pTimers > 0
  /\ pTimers' = pTimers - 1
  /\ pDisabled' = AuthSetLoadingState(FALSE)
  /\ emitted' = <<>>
  /\ UNCHANGED <<offSignIn, page, aValue, aClass, aAria, aErrText, authTab,
                 eDisabled, ePending, eTimers, pPending>>

AuthNext ==
  \/ \E tab \in {"email", "phone"} : switchTab(tab)
  \/ \E i \in AuthInputs : \E v \in AuthValues(i) : AuthInput(i, v)
  \/ \E i \in AuthInputs : AuthBlur(i)
  \/ handleEmailSubmit
  \/ EmailResolved
  \/ \E m \in RejectMessages : EmailRejected(m)
  \/ EmailRedirect
  \/ handlePhoneSubmit
  \/ PhoneResolved
  \/ \E m \in RejectMessages : PhoneRejected(m)
  \/ PhoneTimer

(***************************************************************************)
(* Theme persistence: ThemeCustomizer (main page) and ThemeManager         *)
(* (sign-in page) share the localStorage key "studyflow-theme".            *)
(* Colours and modes are sequences of characters.                          *)
(***************************************************************************)
ThemeKey == "studyflow-theme"
ShareKey == "studyflow-share-progress"
StorageKeys == {ThemeKey, ShareKey}
StorePages == {"home", "signin", "support"}

Light == <<"l", "i", "g", "h", "t">>
Dark == <<"d", "a", "r", "k">>

\* localStorage.getItem of a key that was never set
NoItem == [present |-> FALSE, valid |-> FALSE, members |-> {}]

\* JSON.stringify of an object: the text lists the members whose value is
\* not undefined
JsonStringify(obj) ==
  [present |-> TRUE, valid |-> TRUE,
   members |-> {<<k, obj[k]>> : k \in {j \in DOMAIN obj : obj[j].kind # "undefined"}}]

\* JSON.parse of a well-formed text
JsonParse(text) ==
  [k \in {m[1] : m \in text.members} |->
     (CHOOSE m \in text.members : m[1] = k)[2]]

\* obj.k
Get(obj, k) == IF k \in DOMAIN obj THEN obj[k] ELSE Undefined

ThemeVars == {"--primary-color", "--secondary-color", "--accent-color",
              "--highlight-color"}
ShadeVars == {"--primary-dark", "--primary-light", "--primary-hover"}
CssVars == ThemeVars \cup ShadeVars

\* the colours the style sheets give the theme properties; defaultTheme and
\* defaultColor repeat them
StyleSheet ==
  [v \in ThemeVars |->
     CASE v = "--primary-color" -> <<"#", "0", "0", "6", "6", "c", "c">>
       [] v = "--secondary-color" -> <<"#", "0", "0", "4", "d", "9", "9">>
       [] v = "--accent-color" -> <<"#", "0", "0", "b", "f", "f", "f">>
       [] v = "--highlight-color" -> <<"#", "f", "f", "d", "7", "0", "0">>]

DefaultThemeMidnight ==
  [primary |-> Str(<<"#", "1", "a", "1", "a", "2", "e">>),
   secondary |-> Str(<<"#", "0", "f", "0", "f", "1", "e">>),
   accent |-> Str(<<"#", "4", "a", "4", "a", "6", "a">>),
   highlight |-> Str(<<"#", "f", "f", "6", "b", "6", "b">>),
   mode |-> Str(Light)]

defaultTheme ==
  [primary |-> Str(<<"#", "0", "0", "6", "6", "c", "c">>), secondary |-> Str(<<"#", "0", "0", "4", "d", "9", "9">>),
   accent |-> Str(<<"#", "0", "0", "b", "f", "f", "f">>), highlight |-> Str(<<"#", "f", "f", "d", "7", "0", "0">>),
   mode |-> Str(Light)]

presets ==
  [t \in {"ocean-blue", "midnight"} |->
     IF t = "ocean-blue"
       THEN [primary |-> Str(<<"#", "0", "0", "6", "6", "c", "c">>), secondary |-> Str(<<"#", "0", "0", "4", "d", "9", "9">>),
             accent |-> Str(<<"#", "0", "0", "b", "f", "f", "f">>), highlight |-> Str(<<"#", "f", "f", "d", "7", "0", "0">>)]
       ELSE [primary |-> Str(<<"#", "1", "a", "1", "a", "2", "e">>), secondary |-> Str(<<"#", "0", "f", "0", "f", "1", "e">>),
             accent |-> Str(<<"#", "4", "a", "4", "a", "6", "a">>), highlight |-> Str(<<"#", "f", "f", "6", "b", "6", "b">>)]]

\* the colours the colour inputs of the model deliver
PickerColors == {<<"#", "f", "f", "0", "0", "0", "0">>}
\* the data-color values of the sign-in page's presets in the model
ColorPresets == {<<"#", "0", "0", "6", "6", "c", "c">>, <<"#", "8", "b", "5", "c", "f", "6">>}
Modes == {Light, Dark}

HexLower == <<"0", "1", "2", "3", "4", "5", "6", "7", "8", "9",
              "a", "b", "c", "d", "e", "f">>
HexUpper == <<"0", "1", "2", "3", "4", "5", "6", "7", "8", "9",
              "A", "B", "C", "D", "E", "F">>
IsHexDigit(c) == \E i \in 1..16 : c = HexLower[i] \/ c = HexUpper[i]
HexValue(c) == (CHOOSE i \in 1..16 : c = HexLower[i] \/ c = HexUpper[i]) - 1
\* parseInt(pair, 16) of two hexadecimal digits
ParseHexPair(hi, lo) == 16 * HexValue(hi) + HexValue(lo)

NullRgb == [ok |-> FALSE, r |-> 0, g |-> 0, b |-> 0]

\* hexToRgb(hex): null unless /^#?([a-f\d]{2})([a-f\d]{2})([a-f\d]{2})$/i matches
hexToRgb(hex) ==
  LET body == IF Len(hex) > 0 /\ hex[1] = "#" THEN Tail(hex) ELSE hex
  IN  IF Len(body) = 6 /\ \A i \in 1..6 : IsHexDigit(body[i])
        THEN [ok |-> TRUE,
              r |-> ParseHexPair(body[1], body[2]),
              g |-> ParseHexPair(body[3], body[4]),
              b |-> ParseHexPair(body[5], body[6])]
        ELSE NullRgb

HexPair(n) == <<HexLower[(n \div 16) + 1], HexLower[(n % 16) + 1]>>
\* rgbToHex(rgb): "#" + ((1 << 24) + (r << 16) + (g << 8) + b).toString(16).slice(1)
rgbToHex(rgb) == <<"#">> \o HexPair(rgb.r) \o HexPair(rgb.g) \o HexPair(rgb.b)

Clamp(n) == SetMax({0, SetMin({255, n})})
\* ThemeManager.adjustBrightness(rgb, percent): floor(c + c * percent / 100), clamped
adjustBrightness(rgb, percent) ==
  [ok |-> TRUE,
   r |-> Clamp((rgb.r * (100 + percent)) \div 100),
   g |-> Clamp((rgb.g * (100 + percent)) \div 100),
   b |-> Clamp((rgb.b * (100 + percent)) \div 100)]
\* ThemeCustomizer.darkenColor(rgb, percent)
darkenColor(rgb, percent) ==
  [ok |-> TRUE,
   r |-> SetMax({0, (rgb.r * (100 - percent)) \div 100}),
   g |-> SetMax({0, (rgb.g * (100 - percent)) \div 100}),
   b |-> SetMax({0, (rgb.b * (100 - percent)) \div 100})]
\* ThemeCustomizer.lightenColor(rgb, percent)
lightenColor(rgb, percent) ==
  [ok |-> TRUE,
   r |-> SetMin({255, (100 * rgb.r + (255 - rgb.r) * percent) \div 100}),
   g |-> SetMin({255, (100 * rgb.g + (255 - rgb.g) * percent) \div 100}),
   b |-> SetMin({255, (100 * rgb.b + (255 - rgb.b) * percent) \div 100})]

\* The document and the storage a handler works on.  error: an exception
\* ended the run; what follows it in the code does not happen.
World ==
  [storage |-> storage, css |-> css, dataTheme |-> dataTheme,
   modeActive |-> modeActive, error |-> FALSE]

\* a newly loaded document over the storage as it is
FreshWorld ==
  [storage |-> storage, css |-> [v \in CssVars |-> <<>>], dataTheme |-> Null,
   modeActive |-> {Light}, error |-> FALSE]

\* documentElement.style.setProperty(variable, value): the value is converted
\* to a string; the empty string removes the declaration
SetProperty(w, variable, value) ==
  [w EXCEPT !.css[variable] = TemplateText(value)]

\* getComputedStyle(documentElement).getPropertyValue(variable)
GetPropertyValue(w, variable) ==
  IF w.css[variable] # <<>> THEN w.css[variable] ELSE StyleSheet[variable]

\* documentElement.getAttribute("data-theme") || "light"
ModeOf(w) == OrElse(w.dataTheme, Str(Light))

\* ThemeCustomizer.saveTheme()
saveTheme(w) ==
  LET theme ==
        [primary |-> Str(Trim(GetPropertyValue(w, "--primary-color"))),
         secondary |-> Str(Trim(GetPropertyValue(w, "--secondary-color"))),
         accent |-> Str(Trim(GetPropertyValue(w, "--accent-color"))),
         highlight |-> Str(Trim(GetPropertyValue(w, "--highlight-color"))),
         mode |-> ModeOf(w)]
  IN  [w EXCEPT !.storage[ThemeKey] = JsonStringify(theme)]

\* ThemeCustomizer.updateColor(variable, value)
updateColor(w, variable, value) == saveTheme(SetProperty(w, variable, value))

\* the four updateColor calls of applyPreset, resetTheme and loadTheme
UpdateThemeColors(w, colors) ==
  LET w1 == updateColor(w, "--primary-color", Get(colors, "primary"))
      w2 == updateColor(w1, "--secondary-color", Get(colors, "secondary"))
      w3 == updateColor(w2, "--accent-color", Get(colors, "accent"))
  IN  updateColor(w3, "--highlight-color", Get(colors, "highlight"))

\* the mode of a loaded snapshot is applied: loadTheme 270-280, loadSavedTheme 260-270
ApplySavedMode(w, theme) ==
  IF Get(theme, "mode") = Str(Dark)
    THEN [w EXCEPT !.dataTheme = Str(Dark), !.modeActive = {Dark}]
    ELSE w

LoadThemeAndSave(w) == saveTheme(w)

\* ThemeCustomizer.loadTheme()
loadTheme(w) ==
  LET savedTheme == w.storage[ThemeKey]
  IN  IF ~savedTheme.present THEN w
      ELSE IF ~savedTheme.valid THEN [w EXCEPT !.error = TRUE]
      ELSE LET theme == JsonParse(savedTheme)
           IN  ApplySavedMode(UpdateThemeColors(w, theme), theme)

\* ThemeManager.saveTheme()
ManagerSaveTheme(w) ==
  LET theme == [color |-> Str(Trim(GetPropertyValue(w, "--primary-color"))),
                mode |-> ModeOf(w)]
  IN  [w EXCEPT !.storage[ThemeKey] = JsonStringify(theme)]

\* ThemeManager.applyColor(color): adjustBrightness reads rgb.r, which throws
\* a TypeError when hexToRgb returned null
applyColor(w, color) ==
  LET w1 == SetProperty(w, "--primary-color", color)
      rgb == hexToRgb(TemplateText(color))
  IN  IF ~rgb.ok THEN [w1 EXCEPT !.error = TRUE]
      ELSE LET w2 == SetProperty(w1, "--primary-dark",
                                 Str(rgbToHex(adjustBrightness(rgb, 0 - 20))))
               w3 == SetProperty(w2, "--primary-light",
                                 Str(rgbToHex(adjustBrightness(rgb, 20))))
               w4 == SetProperty(w3, "--primary-hover",
                                 Str(rgbToHex(adjustBrightness(rgb, 0 - 10))))
           IN  ManagerSaveTheme(w4)

\* ThemeManager.loadSavedTheme()
loadSavedTheme(w) ==
  LET savedTheme == w.storage[ThemeKey]
  IN  IF ~savedTheme.present THEN w
      ELSE IF ~savedTheme.valid THEN [w EXCEPT !.error = TRUE]
      ELSE LET theme == JsonParse(savedTheme)
               w1 == applyColor(w, Get(theme, "color"))
           IN  IF w1.error THEN w1 ELSE ApplySavedMode(w1, theme)

\* what a handler run leaves behind
Commit(w) ==
  /\ storage' = w.storage
  /\ css' = w.css
  /\ dataTheme' = w.dataTheme
  /\ modeActive' = w.modeActive

(***************************************************************************)
(* Share progress: SocialSharingManager of the support page and the        *)
(* localStorage key "studyflow-share-progress".  The champion section      *)
(* carries the class "hidden" in the page's markup.                        *)
(***************************************************************************)
\* the platforms of the model, four of the six of the global sharing
\* functions (lines 1773-1870): shareOnTwitter, shareOnFacebook,
\* shareOnLinkedIn, copyInstagramMessage
Platforms == {"twitter", "facebook", "linkedin", "instagram"}
\* copyInstagramMessage shows a toast of its own first
ClipboardPlatforms == {"instagram"}
ChampionThreshold == 3

\* an array value
Arr(s) == [kind |-> "array", n |-> 0, s |-> s]

AlreadySharedToast == Toast("info", <<"You already shared on this platform!">>)
SharedToast(platform) == Toast("success", <<"Shared on", platform>>)
CopiedToast(platform) == Toast("success", <<"Message copied!", platform>>)

\* The SocialSharingManager, the elements it writes and the storage.
ShareWorld ==
  [storage |-> storage, count |-> shareCount, platforms |-> sharedPlatforms,
   hidden |-> championHidden, ui |-> shareUi, error |-> FALSE]

\* the support page as its markup and the constructor (1566-1573) leave it;
\* width is in thirds of a percent
FreshShareUi == [width |-> 0, countText |-> 0, message |-> <<>>, marked |-> {}]
FreshShare ==
  [storage |-> storage, count |-> 0, platforms |-> <<>>, hidden |-> TRUE,
   ui |-> FreshShareUi, error |-> FALSE]

NewSetOfFirst(array) == IF array = <<>> THEN <<>> ELSE <<array[1]>>

\* new Set(array): the elements in the order of their first occurrence
RECURSIVE NewSet(_)
NewSet(array) ==
  IF array = <<>> THEN <<>>
  ELSE LET front == NewSet(SubSeq(array, 1, Len(array) - 1))
           last == array[Len(array)]
       IN  IF \E i \in 1..Len(front) : front[i] = last
             THEN front ELSE Append(front, last)

HasNever(set, platform) == FALSE

\* set.has(platform)
Has(set, platform) == \E i \in 1..Len(set) : set[i] = platform

\* SocialSharingManager.updateProgress()
updateProgress(sw) ==
  LET remaining == ChampionThreshold - sw.count
      message ==
        IF sw.count >= ChampionThreshold
          THEN <<"You're a Community Champion!">>
          ELSE <<"Share on", NumberText(remaining),
                 IF remaining = 1 THEN "platform" ELSE "platforms",
                 "to become a Community Champion!">>
  IN  [sw EXCEPT !.ui.width = SetMin({sw.count * 100, ChampionThreshold * 100}),
                 !.ui.countText = sw.count,
                 !.ui.message = message]

\* SocialSharingManager.markPlatformShared(platform)
markPlatformShared(sw, platform) ==
  IF platform \in Platforms
    THEN [sw EXCEPT !.ui.marked = @ \cup {platform}]
    ELSE sw

UnlockNothing(sw) == sw

\* SocialSharingManager.unlockChampionStatus()
unlockChampionStatus(sw) ==
  IF sw.hidden THEN [sw EXCEPT !.hidden = FALSE] ELSE sw

SaveNothing(sw) == sw

\* SocialSharingManager.saveProgress()
saveProgress(sw) ==
  [sw EXCEPT !.storage[ShareKey] =
     JsonStringify([count |-> Num(sw.count), platforms |-> Arr(sw.platforms)])]

RECURSIVE MarkAll(_, _)
\* data.platforms.forEach((platform) => this.markPlatformShared(platform))
MarkAll(sw, array) ==
  IF array = <<>> THEN sw
  ELSE MarkAll(markPlatformShared(sw, Head(array)), Tail(array))

\* SocialSharingManager.loadProgress(): data.platforms.forEach throws a
\* TypeError when the snapshot has no platforms member
loadProgress(sw) ==
  LET saved == sw.storage[ShareKey]
  IN  IF ~saved.present THEN sw
      ELSE IF ~saved.valid THEN [sw EXCEPT !.error = TRUE]
      ELSE LET data == JsonParse(saved)
               w1 == [sw EXCEPT !.count = OrElse(Get(data, "count"), Num(0)).n,
                                !.platforms =
                                  NewSet(OrElse(Get(data, "platforms"), Arr(<<>>)).s)]
               w2 == updateProgress(w1)
           IN  IF Get(data, "platforms").kind # "array"
                 THEN [w2 EXCEPT !.error = TRUE]
                 ELSE LET w3 == MarkAll(w2, Get(data, "platforms").s)
                      IN  IF w3.count >= ChampionThreshold
                            THEN unlockChampionStatus(w3) ELSE w3

\* what a run of the SocialSharingManager leaves behind in its page
ShareCommit(sw) ==
  /\ shareCount' = sw.count
  /\ sharedPlatforms' = sw.platforms
  /\ championHidden' = sw.hidden
  /\ shareUi' = sw.ui

\* SocialSharingManager.registerShare(platform)
registerShare(sw, platform) ==
  IF Has(sw.platforms, platform) THEN sw
  ELSE LET w1 == [sw EXCEPT !.platforms = Append(@, platform),
                            !.count = @ + 1]
           w2 == saveProgress(markPlatformShared(updateProgress(w1), platform))
       IN  IF w2.count >= ChampionThreshold /\ ~w2.hidden
             THEN unlockChampionStatus(w2) ELSE w2

\* A click on a share button: shareOnTwitter, shareOnFacebook, shareOnLinkedIn,
\* and the clipboard continuation of copyInstagramMessage.
Share(platform) ==
  /\ page = "support" /\ ~pageError
  /\ platform \in Platforms
  /\ LET sw == registerShare(ShareWorld, platform)
     IN  /\ ShareCommit(sw)
         /\ storage' = sw.storage
  /\ emitted' =
       (IF platform \in ClipboardPlatforms THEN <<CopiedToast(platform)>> ELSE <<>>)
       \o (IF Has(sharedPlatforms, platform)
             THEN <<AlreadySharedToast>> ELSE <<SharedToast(platform)>>)
  /\ UNCHANGED <<offStore, probeVars, page, css, dataTheme, modeActive,
                 pageError, authReady>>

ShareInit ==
  /\ shareCount = 0
  /\ sharedPlatforms = <<>>
  /\ championHidden = TRUE
  /\ shareUi = FreshShareUi

\* The state of the theme and the storage when nothing was ever saved.
StoreInit ==
  /\ storage = [k \in StorageKeys |-> NoItem]
  /\ css = [v \in CssVars |-> <<>>]
  /\ dataTheme = Null
  /\ modeActive = {Light}
  /\ pageError = FALSE
  /\ authReady = (page = "signin")
  /\ ShareInit

\* The browser loads page p: the document is new, the storage is what it was,
\* and the page's DOMContentLoaded handler constructs its objects.  On the
\* sign-in page an exception of the ThemeManager constructor ends
\* initializeApp before the AuthenticationManager is constructed.
Load(p) ==
  /\ p \in StorePages
  /\ page \in StorePages
  /\ LET w == CASE p = "home" -> loadTheme(FreshWorld)
                [] p = "signin" -> loadSavedTheme(FreshWorld)
                [] p = "support" -> FreshWorld
         sw == IF p = "support" THEN loadProgress(FreshShare) ELSE FreshShare
     IN  /\ Commit(w)
         /\ ShareCommit(sw)
         /\ pageError' = (w.error \/ sw.error)
         /\ authReady' = (p = "signin" /\ ~w.error)
  /\ page' = p
  /\ emitted' = <<>>
  /\ UNCHANGED <<offStore, probeVars>>

\* ThemeCustomizer.applyPreset(presetElement)
applyPreset(theme) ==
  /\ page = "home" /\ ~pageError
  /\ theme \in DOMAIN presets
  /\ Commit(saveTheme(UpdateThemeColors(World, presets[theme])))
  /\ emitted' = <<>>
  /\ UNCHANGED <<offStore, shareVars, probeVars, page, pageError, authReady>>

\* ThemeCustomizer.updatePrimaryColor(color), the "input" listener of the
\* primary colour picker
updatePrimaryColor(color) ==
  /\ page = "home" /\ ~pageError
  /\ color \in PickerColors
  /\ LET w1 == updateColor(World, "--primary-color", Str(color))
         rgb == hexToRgb(color)
         w2 == updateColor(w1, "--primary-dark", Str(rgbToHex(darkenColor(rgb, 20))))
         w3 == updateColor(w2, "--primary-light", Str(rgbToHex(lightenColor(rgb, 30))))
     IN  Commit(saveTheme(w3))
  /\ emitted' = <<>>
  /\ UNCHANGED <<offStore, shareVars, probeVars, page, pageError, authReady>>

\* the "input" listener of a palette colour input: updateColor(dataset.var, value)
PaletteInput(variable, color) ==
  /\ page = "home" /\ ~pageError
  /\ variable \in ThemeVars /\ color \in PickerColors
  /\ Commit(updateColor(World, variable, Str(color)))
  /\ emitted' = <<>>
  /\ UNCHANGED <<offStore, shareVars, probeVars, page, pageError, authReady>>

\* ThemeCustomizer.toggleMode(button)
toggleMode(mode) ==
  /\ page = "home" /\ ~pageError
  /\ mode \in Modes
  /\ LET w1 == [World EXCEPT !.modeActive = {mode},
                             !.dataTheme = IF mode = Dark THEN Str(Dark) ELSE Null]
     IN  Commit(saveTheme(w1))
  /\ emitted' = <<>>
  /\ UNCHANGED <<offStore, shareVars, probeVars, page, pageError, authReady>>

ThemeResetNotice == Toast("notification", <<"Theme reset to default">>)

\* ThemeCustomizer.resetTheme()
resetTheme ==
  /\ page = "home" /\ ~pageError
  /\ LET w1 == UpdateThemeColors(World, defaultTheme)
         w2 == [w1 EXCEPT !.dataTheme = Null, !.modeActive = {Light},
                          !.storage[ThemeKey] = NoItem]
     IN  Commit(w2)
  /\ emitted' = <<ThemeResetNotice>>
  /\ UNCHANGED <<offStore, shareVars, probeVars, page, pageError, authReady>>

\* ThemeManager.applyColor(color) as a listener: a click on a colour preset
\* (applyPreset) or an "input" event of the custom colour input
ManagerApplyColor(color) ==
  /\ page = "signin" /\ ~pageError
  /\ color \in ColorPresets \cup PickerColors
  /\ Commit(applyColor(World, Str(color)))
  /\ emitted' = <<>>
  /\ UNCHANGED <<offStore, shareVars, probeVars, page, pageError, authReady>>

\* ThemeManager.toggleMode(button)
ManagerToggleMode(mode) ==
  /\ page = "signin" /\ ~pageError
  /\ mode \in Modes
  /\ LET w1 == [World EXCEPT !.modeActive = {mode},
                             !.dataTheme = IF mode = Dark THEN Str(Dark) ELSE Null]
     IN  Commit(ManagerSaveTheme(w1))
  /\ emitted' = <<>>
  /\ UNCHANGED <<offStore, shareVars, probeVars, page, pageError, authReady>>

StoreNext ==
  \/ \E p \in StorePages : Load(p)
  \/ \E t \in DOMAIN presets : applyPreset(t)
  \/ \E c \in PickerColors : updatePrimaryColor(c)
  \/ \E v \in ThemeVars, c \in PickerColors : PaletteInput(v, c)
  \/ \E m \in Modes : toggleMode(m)
  \/ resetTheme
  \/ \E c \in ColorPresets \cup PickerColors : ManagerApplyColor(c)
  \/ \E m \in Modes : ManagerToggleMode(m)
  \/ \E s \in Platforms : Share(s)

(***************************************************************************)
(* Toasts and time; the champion sign-up form of the support page; the FAQ *)
(* accordion of the help page.  Time passes in steps of TickMs, and a      *)
(* timer fires at the first step at which it is due.                       *)
(***************************************************************************)
\* the default of ToastManager.show's duration parameter
DefaultDuration == 4000
\* the delay of the inner timer of ToastManager.show, the exit animation
ExitMs == 300
\* the duration submitChampion gives its success toast
WelcomeDuration == 6000
\* the delay of submitChampion's simulated call
ChampionDelay == 1000

ChampionControls == {"championName", "championEmail"}
ChampionValues(c) ==
  IF c = "championName" THEN {<<>>, <<"J">>}
  ELSE {<<>>, <<"j", "@", "x", ".", "c", "o">>}
\* championForm.reset()
ChampionDefaults == [c \in ChampionControls |-> <<>>]

ChampionFieldsToast == Toast("error", <<"Please fill in all fields">>)
\* `Welcome to the Community Champions, ${name}! ...`
ChampionWelcomeToast(name) ==
  Toast("success", <<"Welcome to the Community Champions", name>>)

\* .faq-item elements of the help page
FaqItems == {"faq1", "faq2", "faq3"}

\* ToastManager.show(message, type, duration): the container with the new
\* toast appended; the toast's outer timer runs from age 0
show(box, id, toast, duration) ==
  Append(box, [id |-> id, type |-> toast.type, text |-> toast.text,
               duration |-> duration, age |-> 0, leaving |-> FALSE, out |-> 0])

\* the toasts of the container an armed timer of which is due
OuterDue(t) == ~t.leaving /\ t.age >= t.duration
InnerDue(t) == t.leaving /\ t.out >= ExitMs

\* what the widgets' handlers and timers leave alone
offWidget == <<page, ticketVars, donationVars, authVars, storeVars, shareVars,
               probeVars>>

\* nothing was shown, typed or opened
WidgetInit ==
  /\ faqActive = {}
  /\ champValue = ChampionDefaults
  /\ champPending = <<>>
  /\ toastBox = <<>>
  /\ toastShown = 0
  /\ toastRemovals = [id \in 1..MaxShows |-> 0]

ToggleKeepsOthers(item) ==
  /\ page = "help"
  /\ item \in FaqItems
  /\ faqActive' = IF item \in faqActive THEN faqActive \ {item}
                                        ELSE faqActive \cup {item}
  /\ emitted' = <<>>
  /\ UNCHANGED <<offWidget, champValue, champPending, toastBox, toastShown,
                 toastRemovals>>

\* FAQManager.toggleFAQ(item)
toggleFAQ(item) ==
  /\ page = "help"
  /\ item \in FaqItems
  /\ LET isActive == item \in faqActive
         others == faqActive \cap {item}
     IN  faqActive' = IF isActive THEN others \ {item} ELSE others \cup {item}
  /\ emitted' = <<>>
  /\ UNCHANGED <<offWidget, champValue, champPending, toastBox, toastShown,
                 toastRemovals>>

\* The user edits a control of the champion form, which is in the unlocked
\* champion section.  No listener runs.
ChampionInput(c, v) ==
  /\ page = "support" /\ ~championHidden
  /\ c \in ChampionControls /\ v \in ChampionValues(c) /\ v # champValue[c]
  /\ champValue' = [champValue EXCEPT ![c] = v]
  /\ emitted' = <<>>
  /\ UNCHANGED <<offWidget, faqActive, champPending, toastBox, toastShown,
                 toastRemovals>>

\* submitChampion up to the await: a pending call keeps the name its
\* continuation closes over and the time since its timer was armed.
submitChampion ==
  /\ page = "support" /\ ~championHidden
  /\ Len(champPending) < MaxPending
  /\ toastShown + Len(champPending) < MaxShows
  /\ LET name == champValue["championName"]
         email == champValue["championEmail"]
     IN  IF Falsy(Str(name)) \/ Falsy(Str(email))
           THEN /\ emitted' = <<ChampionFieldsToast>>
                /\ toastBox' = show(toastBox, toastShown + 1, ChampionFieldsToast,
                                    DefaultDuration)
                /\ toastShown' = toastShown + 1
                /\ UNCHANGED champPending
           ELSE /\ emitted' = <<>>
                /\ champPending' = Append(champPending, [name |-> name, age |-> 0])
                /\ UNCHANGED <<toastBox, toastShown>>
  /\ UNCHANGED <<offWidget, faqActive, champValue, toastRemovals>>

\* The timer of the simulated call fires: submitChampion from the await to
\* the end of the try.
ChampionResolved ==
  /\ page = "support"
  /\ champPending # <<>>
  /\ Head(champPending).age >= ChampionDelay
  /\ emitted' = <<ChampionWelcomeToast(Head(champPending).name)>>
  /\ toastBox' = show(toastBox, toastShown + 1,
                      ChampionWelcomeToast(Head(champPending).name),
                      WelcomeDuration)
  /\ toastShown' = toastShown + 1
  /\ champValue' = ChampionDefaults
  /\ champPending' = Tail(champPending)
  /\ UNCHANGED <<offWidget, faqActive, toastRemovals>>

\* The outer timer of a toast fires: the exit animation starts and the inner
\* timer is armed.
ToastExit(i) ==
  /\ i \in 1..Len(toastBox)
  /\ OuterDue(toastBox[i])
  /\ toastBox' = [toastBox EXCEPT ![i].leaving = TRUE]
  /\ UNCHANGED <<offWidget, emitted, faqActive, champValue, champPending,
                 toastShown, toastRemovals>>

ToastRemoveAtOnce(i) ==
  /\ i \in 1..Len(toastBox)
  /\ toastBox[i].leaving
  /\ toastBox' = SubSeq(toastBox, 1, i - 1) \o SubSeq(toastBox, i + 1, Len(toastBox))
  /\ toastRemovals' = [toastRemovals EXCEPT ![toastBox[i].id] = @ + 1]
  /\ UNCHANGED <<offWidget, emitted, faqActive, champValue, champPending,
                 toastShown>>

\* The inner timer of a toast fires: toast.remove()
ToastRemove(i) ==
  /\ i \in 1..Len(toastBox)
  /\ InnerDue(toastBox[i])
  /\ toastBox' = SubSeq(toastBox, 1, i - 1) \o SubSeq(toastBox, i + 1, Len(toastBox))
  /\ toastRemovals' = [toastRemovals EXCEPT ![toastBox[i].id] = @ + 1]
  /\ UNCHANGED <<offWidget, emitted, faqActive, champValue, champPending,
                 toastShown>>

\* Time passes while a timer is armed and none is due.
Tick ==
  /\ toastBox # <<>> \/ champPending # <<>>
  /\ \A i \in 1..Len(toastBox) : ~OuterDue(toastBox[i]) /\ ~InnerDue(toastBox[i])
  /\ \A i \in 1..Len(champPending) : champPending[i].age < ChampionDelay
  /\ toastBox' = [i \in 1..Len(toastBox) |->
                    [toastBox[i] EXCEPT !.age = @ + TickMs,
                                        !.out = IF toastBox[i].leaving
                                                  THEN @ + TickMs ELSE @]]
  /\ champPending' = [i \in 1..Len(champPending) |->
                        [champPending[i] EXCEPT !.age = @ + TickMs]]
  /\ UNCHANGED <<offWidget, emitted, faqActive, champValue, toastShown,
                 toastRemovals>>

(***************************************************************************)
(* The validators as functions of the value they are given.  A probe is    *)
(* the value of the field; the validators of the page are applied to it.   *)
(***************************************************************************)
\* the lengths at and next to the limits of the rules
ProbeLengths ==
  {0, NameMinLength - 1, NameMinLength,
   SubjectMinLength - 1, SubjectMinLength,
   PasswordMinLength - 1, PasswordMinLength, PasswordMinLength + 1,
   DescriptionMinLength - 1, DescriptionMinLength,
   DescriptionMaxLength, DescriptionMaxLength + 1,
   CharCountWarnAbove, CharCountWarnAbove + 1,
   CharCountErrorFrom - 1, CharCountErrorFrom}

LengthProbes == {Rep("x", n) : n \in ProbeLengths}
BlankProbes == {Rep(" ", n) : n \in {1, PasswordMinLength, PhoneMinLength}}
EmailProbes ==
  {<<"a", "@", "b", ".", "c", "o">>, <<"n", "o", "t", "-", "a", "n", "-", "e", "m", "a", "i", "l">>, <<"a", "@", "@", "b", ".", "c", "o">>, <<"a", "@", "b">>, <<"a", " ", "b", "@", "c", ".", "d", "e">>,
   <<"@", "b", ".", "c", "o">>, <<"a", "@", ".", "c", "o">>, <<"a", "@", "b", ".">>, <<"a", ".", "b", "@", "c", ".", "d", ".", "e", "f">>, <<"a", "@", "b", "@", "c", ".", "d", "e">>}
PhoneProbes ==
  {<<"(", "5", "5", "5", ")", " ", "1", "2", "3", "-", "4", "5", "6", "7">>, <<"5", "5", "5", "1", "2", "3", "4", "5", "6", "7">>, <<"5", "5", "5", "1", "2", "3", "4", "5", "6">>, <<"5", "5", "5", "-", "1", "2", "3", "4">>,
   <<"+", "1", "5", "5", "5", "1", "2", "3", "4", "5", "6", "7">>, <<"5", "5", "5", ".", "1", "2", "3", ".", "4", "5", "6", "7">>, <<"1", "2", "3", "4", "5", "6", "7", "8", "9", "0", "a">>, <<"1", "2", "3", "4", "5", "6", "7", "8", "9", "0", "1">>,
   <<"(", "5", "5", "5", ")", " ", "1", "2", "3", "-", "4", "5", "6">>}
WithPadding(S) == S \cup {<<" ">> \o s \o <<" ">> : s \in S}
ProbeInputs ==
  WithPadding(LengthProbes \cup EmailProbes \cup PhoneProbes) \cup BlankProbes

NoVerdict == [by |-> "none", result |-> Valid]

\* no validator has run
ProbeInit ==
  /\ probe = <<>>
  /\ verdict = NoVerdict

\* what applying a validator to the probe leaves alone
offProbe == <<page, emitted, ticketVars, donationVars, authVars, storeVars,
              shareVars, widgetVars, probe>>

\* A text validator of the ticket form is applied to the value: its result
TicketValidate(f) ==
  /\ page = "help"
  /\ f \in TextFields
  /\ verdict' = [by |-> f, result |-> Validate(f, probe)]
  /\ UNCHANGED offProbe

\* A validator of FormValidator is applied to the value: its result
FormValidate(i) ==
  /\ page = "signin"
  /\ i \in AuthInputs
  /\ verdict' = [by |-> i, result |-> AuthValidate(i, probe)]
  /\ UNCHANGED offProbe

\* The value is typed into the description: the "input" listeners of the
\* textarea run, updateCharCount and then clearError.
DescriptionInput ==
  /\ page = "help"
  /\ probe # tValue["description"]
  /\ tValue' = [tValue EXCEPT !["description"] = probe]
  /\ charCount' = updateCharCount(probe)
  /\ LET d == clearError(TicketDom, "description")
     IN  tClass' = d.cls /\ tAria' = d.aria /\ errText' = d.text
  /\ emitted' = <<>>
  /\ UNCHANGED <<offHelp, page, tDisabled, tModal, tPending, tTimers>>

ValidatorInit ==
  /\ page \in {"help", "signin"}
  /\ emitted = <<>>
  /\ TicketInit
  /\ DonationInit
  /\ AuthInit
  /\ StoreInit
  /\ probe \in ProbeInputs
  /\ verdict = NoVerdict
  /\ WidgetInit

ValidatorNext ==
  \/ \E f \in TextFields : TicketValidate(f)
  \/ \E i \in AuthInputs : FormValidate(i)
  \/ DescriptionInput

\* The validators on every probe.
ValidatorSpec == ValidatorInit /\ [][ValidatorNext]_vars

\* the share progress of a visitor who shared on three platforms
ChampionSnapshot ==
  JsonStringify([count |-> Num(ChampionThreshold),
                 platforms |-> Arr(<<"twitter", "facebook", "linkedin">>)])

\* The help page, and the support page as loadProgress leaves it for a
\* visitor whose three shares are stored.
WidgetSpecInit ==
  /\ page \in {"help", "support"}
  /\ emitted = <<>>
  /\ TicketInit
  /\ DonationInit
  /\ AuthInit
  /\ storage = [k \in StorageKeys |-> IF k = ShareKey THEN ChampionSnapshot ELSE NoItem]
  /\ css = [v \in CssVars |-> <<>>]
  /\ dataTheme = Null
  /\ modeActive = {Light}
  /\ pageError = FALSE
  /\ authReady = FALSE
  /\ LET fresh == [storage |-> [k \in StorageKeys |->
                                  IF k = ShareKey THEN ChampionSnapshot ELSE NoItem],
                   count |-> 0, platforms |-> <<>>, hidden |-> TRUE,
                   ui |-> FreshShareUi, error |-> FALSE]
         sw == IF page = "support" THEN loadProgress(fresh) ELSE fresh
     IN  /\ shareCount = sw.count
         /\ sharedPlatforms = sw.platforms
         /\ championHidden = sw.hidden
         /\ shareUi = sw.ui
  /\ ProbeInit
  /\ WidgetInit

WidgetNext ==
  \/ \E item \in FaqItems : toggleFAQ(item)
  \/ \E c \in ChampionControls : \E v \in ChampionValues(c) : ChampionInput(c, v)
  \/ submitChampion
  \/ ChampionResolved
  \/ \E i \in 1..MaxShows : ToastExit(i)
  \/ \E i \in 1..MaxShows : ToastRemove(i)
  \/ Tick

WidgetSpec == WidgetSpecInit /\ [][WidgetNext]_vars

\* Time passes and due timers fire.
WidgetFairSpec ==
  /\ WidgetSpec
  /\ WF_vars(Tick)
  /\ WF_vars(ChampionResolved)
  /\ WF_vars(\E i \in 1..MaxShows : ToastExit(i))
  /\ WF_vars(\E i \in 1..MaxShows : ToastRemove(i))

Init ==
  /\ page \in {"help", "support", "signin"}
  /\ emitted = <<>>
  /\ TicketInit
  /\ DonationInit
  /\ AuthInit
  /\ StoreInit
  /\ ProbeInit
  /\ WidgetInit

Next == TicketNext \/ DonationNext \/ AuthNext

Spec == Init /\ [][Next]_vars

\* The theme pages: their handlers and the page loads over one storage.
StoreSpecInit ==
  /\ page \in StorePages
  /\ emitted = <<>>
  /\ TicketInit
  /\ DonationInit
  /\ AuthInit
  /\ StoreInit
  /\ ProbeInit
  /\ WidgetInit

StoreSpec == StoreSpecInit /\ [][StoreNext]_vars

(***************************************************************************)
(* The external operations settle and armed timers fire.                   *)
(***************************************************************************)
FairSpec ==
  /\ Spec
  /\ WF_vars(TicketResolved \/ TicketRejected)
  /\ WF_vars(TicketTimer)
  /\ WF_vars(DonationResolved \/ DonationRejected)
  /\ WF_vars(EmailResolved \/ \E m \in RejectMessages : EmailRejected(m))
  /\ WF_vars(EmailRedirect)
  /\ WF_vars(PhoneResolved \/ \E m \in RejectMessages : PhoneRejected(m))
  /\ WF_vars(PhoneTimer)

(***************************************************************************)
(* Claims.                                                                 *)
(***************************************************************************)
TicketInvalidFields == {f \in TicketFields : ~Validate(f, tValue[f]).valid}

\* C1: a run of TicketManager.handleSubmit in which a field validator fails
\* starts no submitTicket call, shows exactly the one error toast "Please fix
\* the errors in the form" and leaves the submit button enabled.
C1_InvalidTicketStaysIdle ==
  [][(TicketHandleSubmit /\ TicketInvalidFields # {})
       => /\ tPending' = tPending
          /\ emitted' = <<FixErrorsToast>>
          /\ ~tDisabled']_vars

C1_Witness ==
  /\ emitted = <<FixErrorsToast>>
  /\ Cardinality(TicketInvalidFields) = 3
  /\ tPending = <<>> /\ ~tDisabled

\* C2: while an external operation of a form is pending the submit button of
\* that form is disabled, and no form has two operations pending.
C2_DisabledWhilePending ==
  /\ tPending # <<>> => tDisabled
  /\ dPending # <<>> => dDisabled
  /\ ePending # <<>> => eDisabled
  /\ pPending # <<>> => pDisabled
  /\ Len(tPending) <= 1 /\ Len(dPending) <= 1
  /\ Len(ePending) <= 1 /\ Len(pPending) <= 1

C2_Witness ==
  /\ Len(ePending) = 1 /\ Len(pPending) = 1
  /\ eDisabled /\ pDisabled

C4_CleanAfterSuccess ==
  (page = "help" /\ emitted # <<>> /\ emitted[1].type = "success")
    => /\ tValue = TicketDefaults
       /\ \A f \in TicketFields :
            ~tClass[f] /\ ~tAria[f] /\ errText[ShowErrorId(f)] = ""

\* C5: right after handleSubmit returned on a failed validation the fields
\* displayed in error are exactly the fields whose value is invalid.
C5_ErrorsAreTheInvalidFields ==
  (page = "help" /\ emitted = <<FixErrorsToast>>)
    => \A f \in TicketFields :
         (tClass[f] \/ errText[ShowErrorId(f)] # "") <=> f \in TicketInvalidFields

\* C6: the catch blocks of the ticket and donation handlers show one error
\* toast, enable the submit button, keep every field value and, for the
\* ticket form, leave the modal as it is.
C6_RejectionKeepsInput ==
  [][/\ TicketRejected
          => /\ Len(emitted') = 1 /\ emitted'[1].type = "error"
             /\ ~tDisabled'
             /\ tValue' = tValue
             /\ tModal' = tModal
     /\ DonationRejected
          => /\ Len(emitted') = 1 /\ emitted'[1].type = "error"
             /\ ~dDisabled'
             /\ dValue' = dValue /\ dChecked' = dChecked]_vars

C6_Witness ==
  /\ emitted = <<TicketFailedToast>>
  /\ tModal /\ ~tDisabled
  /\ TicketInvalidFields = {}

\* C7: the success toast of a donation names the frequency and the amount
\* given to processDonation; the form is cleared and the button enabled.
C7_ToastNamesWhatWasPaid ==
  [][DonationResolved
       => /\ emitted' = <<DonationThanksToast(Head(dPending).frequency,
                                              Head(dPending).amount)>>
          /\ dValue' = DonationDefaults
          /\ ~dDisabled']_vars

\* C8: processDonation is only ever given a donor name that is non-empty
\* after trimming and a donor email that matches the email pattern.
C8_DonationValidated ==
  \A i \in 1..Len(dPending) :
    /\ Trim(dPending[i].name) # <<>>
    /\ EmailPatternTest(dPending[i].email)

\* the mode member of the stored theme snapshot
StoredMode ==
  IF storage[ThemeKey].present /\ storage[ThemeKey].valid
    THEN Get(JsonParse(storage[ThemeKey]), "mode")
    ELSE Undefined

\* the members the class of page p reads from a theme snapshot
ExpectedMembers(p) ==
  IF p = "home" THEN {"primary", "secondary", "accent", "highlight", "mode"}
                ELSE {"color", "mode"}

\* the stored theme snapshot has every member the class of page p reads
SnapshotComplete(p) ==
  /\ storage[ThemeKey].present /\ storage[ThemeKey].valid
  /\ ExpectedMembers(p) \subseteq DOMAIN JsonParse(storage[ThemeKey])

\* C9: a reload of a theme page over a snapshot of its own class whose mode
\* is "dark" applies dark mode and leaves the mode "dark" in the snapshot.
C9_DarkModeSurvivesReload ==
  [][(Load(page) /\ SnapshotComplete(page) /\ StoredMode = Str(Dark))
       => (dataTheme' = Str(Dark) /\ StoredMode' = Str(Dark))]_vars

\* C10: loading the theme from a stored string that is not valid JSON or
\* lacks a member the loading class reads raises no error, leaves the theme
\* at its defaults and lets the rest of the page's initialisation run.
C10_UnusableSnapshotLoadsDefaults ==
  [][\A p \in StorePages :
       (Load(p) /\ storage[ThemeKey].present /\ ~SnapshotComplete(p))
         => /\ ~pageError'
            /\ authReady' = (p = "signin")
            /\ dataTheme' = Null
            /\ \A v \in ThemeVars : css'[v] \in {<<>>, StyleSheet[v]}]_vars

\* C11: the registerShare call that records the third platform unlocks the
\* champion section, and an unlocked section stays unlocked through further
\* calls.
C11_ThirdShareUnlocks ==
  [][\A s \in Platforms :
       Share(s) =>
         /\ (shareCount = ChampionThreshold - 1 /\ shareCount' = ChampionThreshold)
              => (championHidden /\ ~championHidden')
         /\ ~championHidden => ~championHidden']_vars

\* the number of toasts of a type among those a handler run showed
ToastCount(toasts, type) ==
  Cardinality({i \in 1..Len(toasts) : toasts[i].type = type})

\* C12: registerShare of a recorded platform changes neither shareCount nor
\* sharedPlatforms nor the storage and shows one info toast and no error
\* toast; registerShare of a new platform adds one to shareCount; shareCount
\* never decreases.
C12_DuplicateShareIsNoOp ==
  [][\A s \in Platforms :
       Share(s) =>
         /\ (\E i \in 1..Len(sharedPlatforms) : sharedPlatforms[i] = s)
              => /\ shareCount' = shareCount
                 /\ sharedPlatforms' = sharedPlatforms
                 /\ storage' = storage
                 /\ ToastCount(emitted', "info") = 1
                 /\ ToastCount(emitted', "error") = 0
         /\ (\A i \in 1..Len(sharedPlatforms) : sharedPlatforms[i] # s)
              => shareCount' = shareCount + 1
         /\ shareCount' >= shareCount]_vars

C12_Witness ==
  /\ page = "support"
  /\ emitted = <<AlreadySharedToast>>
  /\ shareCount = 2

\* the stored snapshot of a key, parsed; no members when there is none
Stored(key) ==
  IF storage[key].present /\ storage[key].valid
    THEN JsonParse(storage[key])
    ELSE <<>>

\* C13: a load of the support page over a stored share progress whose count
\* is at least 3 leaves the champion section unlocked.
C13_ChampionSurvivesReload ==
  [][(Load("support") /\ "count" \in DOMAIN Stored(ShareKey)
        /\ Stored(ShareKey)["count"].n >= 3)
       => ~championHidden']_vars

C13_Witness ==
  /\ page = "support"
  /\ ~championHidden
  /\ shareCount >= 3

\* the key of the store of page p and the members its snapshots have
StoreKeyOf(p) == IF p = "support" THEN ShareKey ELSE ThemeKey
StoreMembers(p) ==
  CASE p = "home" -> {"primary", "secondary", "accent", "highlight", "mode"}
    [] p = "signin" -> {"color", "mode"}
    [] p = "support" -> {"count", "platforms"}
OwnSnapshot(p) == StoreMembers(p) \subseteq DOMAIN Stored(StoreKeyOf(p))

\* the theme the document shows: a theme property and the mode
ShownColor(v) == IF css[v] # <<>> THEN css[v] ELSE StyleSheet[v]
ShownMode == IF dataTheme.kind = "string" THEN dataTheme.s ELSE Light

\* C14: a page load over a snapshot written by the store of that page ends
\* with the in-memory state the snapshot holds: four colours and mode
\* (ThemeCustomizer), colour and mode (ThemeManager), count and platforms
\* (SocialSharingManager).
C14_RoundTrip ==
  [][\A p \in StorePages :
       (Load(p) /\ OwnSnapshot(p)) =>
         LET snap == Stored(StoreKeyOf(p))
         IN  CASE p = "home" ->
                    /\ ShownColor("--primary-color")' = snap["primary"].s
                    /\ ShownColor("--secondary-color")' = snap["secondary"].s
                    /\ ShownColor("--accent-color")' = snap["accent"].s
                    /\ ShownColor("--highlight-color")' = snap["highlight"].s
                    /\ ShownMode' = snap["mode"].s
               [] p = "signin" ->
                    /\ ShownColor("--primary-color")' = snap["color"].s
                    /\ ShownMode' = snap["mode"].s
               [] p = "support" ->
                    /\ shareCount' = snap["count"].n
                    /\ {sharedPlatforms'[i] : i \in 1..Len(sharedPlatforms')}
                         = {snap["platforms"].s[i] : i \in 1..Len(snap["platforms"].s)}]_vars

C14_Witness ==
  /\ page = "support"
  /\ emitted = <<>>
  /\ shareCount = 2
  /\ Len(sharedPlatforms) = 2
  /\ OwnSnapshot("home")

\* C15: a page load whose store key was never saved raises no error, leaves
\* the store at its defaults and leaves the key absent.
C15_AbsentKeyLoadsDefaults ==
  [][\A p \in StorePages :
       (Load(p) /\ ~storage[StoreKeyOf(p)].present) =>
         /\ ~pageError'
         /\ ~storage'[StoreKeyOf(p)].present
         /\ p \in {"home", "signin"} =>
              /\ \A v \in ThemeVars : ShownColor(v)' = StyleSheet[v]
              /\ ShownMode' = Light
         /\ p = "support" =>
              /\ shareCount' = 0
              /\ sharedPlatforms' = <<>>
              /\ championHidden']_vars

C15_Witness ==
  /\ page = "home"
  /\ ~storage[ThemeKey].present
  /\ storage[ShareKey].present
  /\ ~pageError

\* the default theme colours
C16_Defaults ==
  [v \in ThemeVars |->
     CASE v = "--primary-color" -> <<"#", "0", "0", "6", "6", "c", "c">>
       [] v = "--secondary-color" -> <<"#", "0", "0", "4", "d", "9", "9">>
       [] v = "--accent-color" -> <<"#", "0", "0", "b", "f", "f", "f">>
       [] v = "--highlight-color" -> <<"#", "f", "f", "d", "7", "0", "0">>]

\* C16: resetTheme leaves the key "studyflow-theme" absent, the four theme
\* colours at the defaults and the mode light, and a reload of the page right
\* after it shows the default theme.
C16_ResetRestoresDefaults ==
  [][/\ resetTheme =>
          /\ ~storage'[ThemeKey].present
          /\ \A v \in ThemeVars : ShownColor(v)' = C16_Defaults[v]
          /\ ShownMode' = Light
     /\ (Load("home") /\ page = "home" /\ emitted = <<ThemeResetNotice>>) =>
          /\ \A v \in ThemeVars : ShownColor(v)' = C16_Defaults[v]
          /\ ShownMode' = Light]_vars

C16_Witness ==
  /\ emitted = <<ThemeResetNotice>>
  /\ ~storage[ThemeKey].present
  /\ css["--primary-color"] = C16_Defaults["--primary-color"]
  /\ css["--primary-dark"] # <<>>

\* local-part@domain.tld: no white space, one "@" with a local part before
\* it, and a domain after it that has a dot with text on both sides
HasEmailShape(v) ==
  LET ats == {k \in 1..Len(v) : v[k] = "@"}
  IN  /\ \A k \in 1..Len(v) : ~IsSpace(v[k])
      /\ Cardinality(ats) = 1
      /\ LET at == CHOOSE k \in ats : TRUE
             domain == SubSeq(v, at + 1, Len(v))
         IN  /\ at > 1
             /\ \E d \in 2..(Len(domain) - 1) : domain[d] = "."

EmailFormatMessage == "Please enter a valid email address"

\* C17 as stated: both email validators reject an empty or white-space-only
\* value with their required message and accept any other value exactly when
\* the value has the shape local-part@domain.tld.
C17_Original ==
  /\ verdict.by = "emailInput" =>
       IF Trim(probe) = <<>>
         THEN verdict.result = Invalid("Email is required")
         ELSE IF HasEmailShape(probe)
           THEN verdict.result.valid
           ELSE verdict.result = Invalid(EmailFormatMessage)
  /\ verdict.by = "email" =>
       IF Trim(probe) = <<>>
         THEN verdict.result = Invalid("Please enter your email")
         ELSE IF HasEmailShape(probe)
           THEN verdict.result.valid
           ELSE verdict.result = Invalid(EmailFormatMessage)

\* C17 amended: FormValidator.validateEmail judges the value as given,
\* TicketManager.validateEmail the value with the white space around it
\* removed.
C17_EmailShapeDecides ==
  /\ verdict.by = "emailInput" =>
       IF Trim(probe) = <<>>
         THEN verdict.result = Invalid("Email is required")
         ELSE IF HasEmailShape(probe)
           THEN verdict.result.valid
           ELSE verdict.result = Invalid(EmailFormatMessage)
  /\ verdict.by = "email" =>
       IF Trim(probe) = <<>>
         THEN verdict.result = Invalid("Please enter your email")
         ELSE IF HasEmailShape(Trim(probe))
           THEN verdict.result.valid
           ELSE verdict.result = Invalid(EmailFormatMessage)

C17_Witness ==
  /\ verdict.by = "email"
  /\ probe = <<" ", "a", "@", "b", ".", "c", "o", " ">>
  /\ verdict.result.valid

\* the "required" message of a text field of the ticket form and its limits
C18_Required(f) ==
  CASE f = "name" -> "Please enter your name"
    [] f = "subject" -> "Please enter a subject"
    [] f = "description" -> "Please describe your issue"
C18_Min(f) ==
  CASE f = "name" -> 2 [] f = "subject" -> 5 [] f = "description" -> 20
C18_TooShort == "Please provide more details (at least 20 characters)"

\* C18: on the trimmed value, validateName, validateSubject and
\* validateDescription give the required message for an empty value, another
\* message below the minimum, a third one above the maximum of the
\* description, and accept every value within the limits.
C18_TextLimits ==
  verdict.by \in {"name", "subject", "description"} =>
    LET f == verdict.by
        v == Trim(probe)
        r == verdict.result
    IN  IF v = <<>> THEN r = Invalid(C18_Required(f))
        ELSE IF Len(v) < C18_Min(f)
          THEN /\ ~r.valid
               /\ r.message # C18_Required(f)
               /\ f = "description" => r.message = C18_TooShort
        ELSE IF f = "description" /\ Len(v) > 1000
          THEN /\ ~r.valid
               /\ r.message \notin {C18_Required(f), C18_TooShort}
        ELSE r.valid

C18_Witness ==
  /\ verdict.by = "description"
  /\ Len(Trim(probe)) = 1001
  /\ ~verdict.result.valid

\* C19: validatePhone rejects a value with fewer than 10 digits and a value
\* with a character that is no digit, white space, parenthesis or hyphen,
\* and accepts every other non-empty value.
C19_PhoneDigitsAndCharacters ==
  verdict.by = "phoneInput" =>
    LET digits == Cardinality({k \in 1..Len(probe) : IsDigit(probe[k])})
        allowed == \A k \in 1..Len(probe) :
                     \/ IsDigit(probe[k]) \/ IsSpace(probe[k])
                     \/ probe[k] \in {"(", ")", "-"}
    IN  verdict.result.valid <=> (probe # <<>> /\ digits >= 10 /\ allowed)

C19_Witness ==
  /\ verdict.by = "phoneInput"
  /\ probe = <<"(", "5", "5", "5", ")", " ", "1", "2", "3", "-", "4", "5", "6", "7">>
  /\ verdict.result.valid

\* C20 as stated: validatePassword accepts exactly the passwords of 8 or
\* more characters.
C20_Original ==
  verdict.by = "passwordInput" => (verdict.result.valid <=> Len(probe) >= 8)

\* C20 amended: validatePassword accepts exactly the passwords of 8 or more
\* characters that are not white space only.
C20_LengthAndNotBlank ==
  verdict.by = "passwordInput" =>
    (verdict.result.valid <=> (Len(probe) >= 8 /\ Trim(probe) # <<>>))

C20_Witness ==
  /\ verdict.by = "passwordInput"
  /\ probe = Rep(" ", 8)
  /\ ~verdict.result.valid

\* C22: closing the ticket modal while submitTicket is pending cancels
\* nothing.  close() changes the modal's visibility only; the pending call can
\* still settle; when it resolves with the modal closed the success toast is
\* shown, the form is reset and the timer is armed; the armed timer can fire
\* and enables the submit button.
C22_CloseDoesNotCancel ==
  /\ [][TicketClose
          => /\ ~tModal'
             /\ UNCHANGED <<tValue, tClass, tAria, errText, charCount,
                            tDisabled, tPending, tTimers>>]_vars
  /\ [](tPending # <<>> => ENABLED TicketResolved)
  /\ [][(TicketResolved /\ ~tModal)
          => /\ emitted' = <<TicketCreatedToast(Head(tPending).email)>>
             /\ tValue' = TicketDefaults
             /\ tTimers' = tTimers + 1]_vars
  /\ [](tTimers > 0 => ENABLED TicketTimer)
  /\ [][TicketTimer => ~tDisabled']_vars

\* the modal was closed while the call was pending, and the call has resolved
C22_Witness ==
  /\ page = "help" /\ ~tModal
  /\ tTimers = 1 /\ tDisabled
  /\ Len(emitted) = 1 /\ emitted[1].type = "success"
  /\ tValue = TicketDefaults

\* the page of the other theme class
OtherThemePage(p) == IF p = "home" THEN "signin" ELSE "home"

\* C23: a theme page loaded over a snapshot that the other page's class
\* saved raises no error, and on the sign-in page the AuthenticationManager
\* is constructed.
C23_CrossPageLoad ==
  [][\A p \in {"home", "signin"} :
       (Load(p) /\ SnapshotComplete(OtherThemePage(p)))
         => (~pageError' /\ authReady' = (p = "signin"))]_vars

\* the elements of a sequence
Range(seq) == {seq[i] : i \in 1..Len(seq)}

\* C24: shareCount is the number of distinct platforms in sharedPlatforms in
\* every state the registerShare calls and the page loads reach, and a
\* registerShare call that records a new platform leaves the count and the
\* platforms of the manager in the stored snapshot.
C24_CountIsPlatforms ==
  /\ [](/\ shareCount = Cardinality(Range(sharedPlatforms))
        /\ shareCount = Len(sharedPlatforms))
  /\ [][\A s \in Platforms :
          (Share(s) /\ ~Has(sharedPlatforms, s))
            => /\ Has(sharedPlatforms', s)
               /\ Stored(ShareKey)' =
                    [count |-> Num(shareCount'),
                     platforms |-> Arr(sharedPlatforms')]]_vars

\* three platforms are recorded, the third by the registerShare call that
\* just ran
C24_Witness ==
  /\ page = "support"
  /\ shareCount = 3
  /\ Len(emitted) = 1 /\ emitted[1].type = "success"
  /\ championHidden
  /\ Cardinality(shareUi.marked) = 3

\* C25: a run of handleSubmit that starts processDonation while the custom
\* amount section is hidden (a preset button is the active choice) gives
\* processDonation, and so the success toast, the amount of that preset.
C25_PresetAmountIsPaid ==
  [][(DonationHandleSubmit /\ customHidden /\ Len(dPending') = Len(dPending) + 1)
       => dPending'[Len(dPending')].amount = selectedAmount]_vars

\* C27: once the "change" listeners of a ticket select have run for a change
\* to the empty placeholder option, the select carries the error class and
\* aria-invalid.
C27_EmptySelectShowsError ==
  [][\A f \in SelectFields :
       TicketChange(f, <<>>) => (tClass'[f] /\ tAria'[f])]_vars

\* C29: the anonymous and the featured checkbox are never checked together,
\* and a checkbox the user checks is checked when its "change" listener has
\* run.
C29_OneDonationOption ==
  /\ [](~(dChecked["anonymousDonor"] /\ dChecked["featuredDonor"]))
  /\ [][\A b \in DonationBoxes :
          (DonationBoxChange(b) /\ ~dChecked[b]) => dChecked'[b]]_vars

\* the user checked "featured" while "anonymous" was checked
C29_Witness ==
  /\ page = "support"
  /\ dChecked["featuredDonor"] /\ ~dChecked["anonymousDonor"]
  /\ dPending # <<>> /\ Head(dPending).anonymous

\* C30: updateCharCount shows the length of the description, uncoloured up
\* to 900 characters, in the warning colour above 900 and below 1000, and in
\* the error colour from 1000 characters on.
C30_CharCountColours ==
  [][DescriptionInput
       => /\ charCount'.text = Len(probe)
          /\ charCount'.color =
               (IF Len(probe) <= CharCountWarnAbove THEN ""
                ELSE IF Len(probe) < CharCountErrorFrom
                  THEN "var(--warning-color)"
                  ELSE "var(--error-color)")]_vars

\* the container holds the toast of that show call
InBox(id) == \E i \in 1..Len(toastBox) : toastBox[i].id = id

\* C21: a ToastManager.show call appends exactly one visible toast at the
\* time of the call, whatever the container holds already (the error toast
\* with the default duration); a toast is not on its way out before its
\* duration has passed; toast.remove() runs for a toast in the container,
\* not before its duration and the exit delay have passed, takes that toast
\* out and leaves the other toasts; it runs at most once for a toast, and
\* for every toast shown it eventually has run.
C21_ToastLifetime ==
  /\ [][(submitChampion \/ ChampionResolved)
          => /\ Len(toastBox') = Len(toastBox) + Len(emitted')
             /\ toastShown' = toastShown + Len(emitted')
             /\ SubSeq(toastBox', 1, Len(toastBox)) = toastBox
             /\ Len(emitted') = 1
                  => LET t == toastBox'[Len(toastBox')]
                     IN  /\ t.age = 0 /\ ~t.leaving
                         /\ t.type = emitted'[1].type /\ t.text = emitted'[1].text
                         /\ t.type = "error" => t.duration = DefaultDuration]_vars
  /\ [](\A i \in 1..Len(toastBox) :
          toastBox[i].age < toastBox[i].duration => ~toastBox[i].leaving)
  /\ [][\A id \in 1..MaxShows :
          toastRemovals'[id] # toastRemovals[id]
            => \E i \in 1..Len(toastBox) :
                 /\ toastBox[i].id = id
                 /\ toastBox[i].age >= toastBox[i].duration + ExitMs
                 /\ toastBox' = SubSeq(toastBox, 1, i - 1)
                                  \o SubSeq(toastBox, i + 1, Len(toastBox))]_vars
  /\ [](\A id \in 1..MaxShows :
          /\ toastRemovals[id] <= 1
          /\ InBox(id) => toastRemovals[id] = 0)
  /\ \A id \in 1..MaxShows : InBox(id) ~> (toastRemovals[id] = 1)

\* the welcome toast was shown first and is still in the container; the
\* error toast shown after it, with the shorter default duration, is gone
C21_Witness ==
  /\ toastRemovals[1] = 0 /\ toastRemovals[2] = 1
  /\ \E i \in 1..Len(toastBox) :
       /\ toastBox[i].id = 1
       /\ toastBox[i].type = "success"
       /\ toastBox[i].duration = WelcomeDuration

\* C26: the champion form has at most one simulated call pending.
C26_OnePendingSignUp == Len(champPending) <= 1

\* C28: at most one FAQ item is active; toggleFAQ of an inactive item makes
\* it the only active item, toggleFAQ of the active item leaves none active.
C28_OneFaqOpen ==
  /\ [](Cardinality(faqActive) <= 1)
  /\ [][\A item \in FaqItems :
          toggleFAQ(item)
            => faqActive' = (IF item \in faqActive THEN {} ELSE {item})]_vars

\* the second item was opened
C28_Witness ==
  /\ page = "help"
  /\ faqActive = {"faq2"}

====
